---- MODULE Spec2Model ----
(***************************************************************************)
(* A model of kissLIB (src/kissLIB.c, src/kissLIB.h): the KISS framing     *)
(* codec, the per-instance status machine, the CRC32 layer and the frame   *)
(* assembler kiss_receive_frame, with the transport callbacks as the       *)
(* environment.                                                            *)
(*                                                                         *)
(* Bytes are the integers 0..255.  A uint32_t is a tuple of four bytes,    *)
(* least significant first, so that every 32-bit operation keeps its       *)
(* width.  The working buffer of an instance is a function on              *)
(* 0..MemSize-1: the cells below buffer_size are the caller's buffer, the  *)
(* cells from buffer_size on are the memory that follows it.               *)
(***************************************************************************)
EXTENDS Integers, Sequences, FiniteSets, TLC

(* ---------------- kissLIB.h: protocol bytes, results, status ----------- *)
KISS_FEND == 192
KISS_FESC == 219
KISS_TFEND == 220
KISS_TFESC == 221

KISS_OK == 0
KISS_ERR_INVALID_PARAMS == 1
KISS_ERR_INVALID_FRAME == 2
KISS_ERR_BUFFER_OVERFLOW == 3
KISS_ERR_NO_DATA_RECEIVED == 4
KISS_ERR_DATA_NOT_ENCODED == 5
KISS_ERR_CRC32_MISMATCH == 6
KISS_ERR_CALLBACK_MISSING == 7
KISS_ERR_STATUS == 9
KISS_ERR_PADDING_OVERFLOW == 10

KISS_STATUS_NOTHING == 0
KISS_STATUS_TRANSMITTING == 1
KISS_STATUS_TRANSMITTED == 2
KISS_STATUS_RECEIVING == 3
KISS_STATUS_RECEIVED == 4
KISS_STATUS_RECEIVED_ERROR == 5
KISS_STATUS_ERROR_STATE == 6

KISS_HEADER_TX_DELAY == 16
KISS_HEADER_SPEED == 96
KISS_HEADER_PING == 128
KISS_HEADER_ACK == 160
KISS_HEADER_NACK == 165
KISS_HEADER_REQUEST_PARAM == 64
KISS_HEADER_SET_PARAM == 80
KISS_HEADER_COMMAND == 112

KISS_MAX_PADDING == 32

(* ---------------- bounds of the model ---------------------------------- *)
\* largest buffer_size handed to kiss_init (the smallest is 3)
MaxBuf == 8
\* longest payload handed to kiss_encode / kiss_push_encode
MaxLen == 2
\* largest padding handed to kiss_init
MaxPad == 3
\* largest maxAttempts handed to kiss_receive_frame
MaxAttempts == 3

\* longest data handed to one kiss_push_encode
MaxPush == 1

\* cells of memory modelled from the start of the working buffer on: the
\* buffer itself and what follows it, as far as any receive can reach
MemSize == MaxBuf + MaxPad + 1

NULL == << >>

(* ---------------- bit operations on bytes and uint32_t ----------------- *)
RECURSIVE Xor(_, _)
\* a ^ b on naturals
Xor(a, b) ==
    IF a = 0 THEN b
    ELSE IF b = 0 THEN a
    ELSE (((a % 2) + (b % 2)) % 2) + 2 * Xor(a \div 2, b \div 2)

\* x ^ y on uint32_t
Xor32(x, y) == << Xor(x[1], y[1]), Xor(x[2], y[2]), Xor(x[3], y[3]), Xor(x[4], y[4]) >>
\* x >> 8 on uint32_t
Shr8(x) == << x[2], x[3], x[4], 0 >>
\* ~x on uint32_t
Not32(x) == << 255 - x[1], 255 - x[2], 255 - x[3], 255 - x[4] >>
U32_ZERO == << 0, 0, 0, 0 >>
U32_ONES == << 255, 255, 255, 255 >>

\* static const uint32_t kiss_CRC32_Table[256], entry i at position i+1
kiss_CRC32_Table ==
  <<
     <<0,0,0,0>>, <<150,48,7,119>>, <<44,97,14,238>>, <<186,81,9,153>>,
     <<25,196,109,7>>, <<143,244,106,112>>, <<53,165,99,233>>, <<163,149,100,158>>,
     <<50,136,219,14>>, <<164,184,220,121>>, <<30,233,213,224>>, <<136,217,210,151>>,
     <<43,76,182,9>>, <<189,124,177,126>>, <<7,45,184,231>>, <<145,29,191,144>>,
     <<100,16,183,29>>, <<242,32,176,106>>, <<72,113,185,243>>, <<222,65,190,132>>,
     <<125,212,218,26>>, <<235,228,221,109>>, <<81,181,212,244>>, <<199,133,211,131>>,
     <<86,152,108,19>>, <<192,168,107,100>>, <<122,249,98,253>>, <<236,201,101,138>>,
     <<79,92,1,20>>, <<217,108,6,99>>, <<99,61,15,250>>, <<245,13,8,141>>,
     <<200,32,110,59>>, <<94,16,105,76>>, <<228,65,96,213>>, <<114,113,103,162>>,
     <<209,228,3,60>>, <<71,212,4,75>>, <<253,133,13,210>>, <<107,181,10,165>>,
     <<250,168,181,53>>, <<108,152,178,66>>, <<214,201,187,219>>, <<64,249,188,172>>,
     <<227,108,216,50>>, <<117,92,223,69>>, <<207,13,214,220>>, <<89,61,209,171>>,
     <<172,48,217,38>>, <<58,0,222,81>>, <<128,81,215,200>>, <<22,97,208,191>>,
     <<181,244,180,33>>, <<35,196,179,86>>, <<153,149,186,207>>, <<15,165,189,184>>,
     <<158,184,2,40>>, <<8,136,5,95>>, <<178,217,12,198>>, <<36,233,11,177>>,
     <<135,124,111,47>>, <<17,76,104,88>>, <<171,29,97,193>>, <<61,45,102,182>>,
     <<144,65,220,118>>, <<6,113,219,1>>, <<188,32,210,152>>, <<42,16,213,239>>,
     <<137,133,177,113>>, <<31,181,182,6>>, <<165,228,191,159>>, <<51,212,184,232>>,
     <<162,201,7,120>>, <<52,249,0,15>>, <<142,168,9,150>>, <<24,152,14,225>>,
     <<187,13,106,127>>, <<45,61,109,8>>, <<151,108,100,145>>, <<1,92,99,230>>,
     <<244,81,107,107>>, <<98,97,108,28>>, <<216,48,101,133>>, <<78,0,98,242>>,
     <<237,149,6,108>>, <<123,165,1,27>>, <<193,244,8,130>>, <<87,196,15,245>>,
     <<198,217,176,101>>, <<80,233,183,18>>, <<234,184,190,139>>, <<124,136,185,252>>,
     <<223,29,221,98>>, <<73,45,218,21>>, <<243,124,211,140>>, <<101,76,212,251>>,
     <<88,97,178,77>>, <<206,81,181,58>>, <<116,0,188,163>>, <<226,48,187,212>>,
     <<65,165,223,74>>, <<215,149,216,61>>, <<109,196,209,164>>, <<251,244,214,211>>,
     <<106,233,105,67>>, <<252,217,110,52>>, <<70,136,103,173>>, <<208,184,96,218>>,
     <<115,45,4,68>>, <<229,29,3,51>>, <<95,76,10,170>>, <<201,124,13,221>>,
     <<60,113,5,80>>, <<170,65,2,39>>, <<16,16,11,190>>, <<134,32,12,201>>,
     <<37,181,104,87>>, <<179,133,111,32>>, <<9,212,102,185>>, <<159,228,97,206>>,
     <<14,249,222,94>>, <<152,201,217,41>>, <<34,152,208,176>>, <<180,168,215,199>>,
     <<23,61,179,89>>, <<129,13,180,46>>, <<59,92,189,183>>, <<173,108,186,192>>,
     <<32,131,184,237>>, <<182,179,191,154>>, <<12,226,182,3>>, <<154,210,177,116>>,
     <<57,71,213,234>>, <<175,119,210,157>>, <<21,38,219,4>>, <<131,22,220,115>>,
     <<18,11,99,227>>, <<132,59,100,148>>, <<62,106,109,13>>, <<168,90,106,122>>,
     <<11,207,14,228>>, <<157,255,9,147>>, <<39,174,0,10>>, <<177,158,7,125>>,
     <<68,147,15,240>>, <<210,163,8,135>>, <<104,242,1,30>>, <<254,194,6,105>>,
     <<93,87,98,247>>, <<203,103,101,128>>, <<113,54,108,25>>, <<231,6,107,110>>,
     <<118,27,212,254>>, <<224,43,211,137>>, <<90,122,218,16>>, <<204,74,221,103>>,
     <<111,223,185,249>>, <<249,239,190,142>>, <<67,190,183,23>>, <<213,142,176,96>>,
     <<232,163,214,214>>, <<126,147,209,161>>, <<196,194,216,56>>, <<82,242,223,79>>,
     <<241,103,187,209>>, <<103,87,188,166>>, <<221,6,181,63>>, <<75,54,178,72>>,
     <<218,43,13,216>>, <<76,27,10,175>>, <<246,74,3,54>>, <<96,122,4,65>>,
     <<195,239,96,223>>, <<85,223,103,168>>, <<239,142,110,49>>, <<121,190,105,70>>,
     <<140,179,97,203>>, <<26,131,102,188>>, <<160,210,111,37>>, <<54,226,104,82>>,
     <<149,119,12,204>>, <<3,71,11,187>>, <<185,22,2,34>>, <<47,38,5,85>>,
     <<190,59,186,197>>, <<40,11,189,178>>, <<146,90,180,43>>, <<4,106,179,92>>,
     <<167,255,215,194>>, <<49,207,208,181>>, <<139,158,217,44>>, <<29,174,222,91>>,
     <<176,194,100,155>>, <<38,242,99,236>>, <<156,163,106,117>>, <<10,147,109,2>>,
     <<169,6,9,156>>, <<63,54,14,235>>, <<133,103,7,114>>, <<19,87,0,5>>,
     <<130,74,191,149>>, <<20,122,184,226>>, <<174,43,177,123>>, <<56,27,182,12>>,
     <<155,142,210,146>>, <<13,190,213,229>>, <<183,239,220,124>>, <<33,223,219,11>>,
     <<212,210,211,134>>, <<66,226,212,241>>, <<248,179,221,104>>, <<110,131,218,31>>,
     <<205,22,190,129>>, <<91,38,185,246>>, <<225,119,176,111>>, <<119,71,183,24>>,
     <<230,90,8,136>>, <<112,106,15,255>>, <<202,59,6,102>>, <<92,11,1,17>>,
     <<255,158,101,143>>, <<105,174,98,248>>, <<211,255,107,97>>, <<69,207,108,22>>,
     <<120,226,10,160>>, <<238,210,13,215>>, <<84,131,4,78>>, <<194,179,3,57>>,
     <<97,38,103,167>>, <<247,22,96,208>>, <<77,71,105,73>>, <<219,119,110,62>>,
     <<74,106,209,174>>, <<220,90,214,217>>, <<102,11,223,64>>, <<240,59,216,55>>,
     <<83,174,188,169>>, <<197,158,187,222>>, <<127,207,178,71>>, <<233,255,181,48>>,
     <<28,242,189,189>>, <<138,194,186,202>>, <<48,147,179,83>>, <<166,163,180,36>>,
     <<5,54,208,186>>, <<147,6,215,205>>, <<41,87,222,84>>, <<191,103,217,35>>,
     <<46,122,102,179>>, <<184,74,97,196>>, <<2,27,104,93>>, <<148,43,111,42>>,
     <<55,190,11,180>>, <<161,142,12,195>>, <<27,223,5,90>>, <<141,239,2,45>>
  >>

(* ---------------- CRC32 engine ----------------------------------------- *)
\* one round of the table-driven loop: crc = (crc >> 8) ^ Table[(crc ^ byte) & 0xFF]
CrcStep(crc, byte) == Xor32(Shr8(crc), kiss_CRC32_Table[Xor(crc[1], byte) + 1])

RECURSIVE CrcLoop(_, _, _)
\* for (i = 0; i < len; i++) over data, from position i (1-based)
CrcLoop(crc, data, i) ==
    IF i > Len(data) THEN crc ELSE CrcLoop(CrcStep(crc, data[i]), data, i + 1)

\* uint32_t kiss_crc32(kiss, data, len), kiss and data not NULL
kiss_crc32(data) == Not32(CrcLoop(U32_ONES, data, 1))

\* uint32_t kiss_crc32_push(kiss, prev_crc, data, len), kiss and data not NULL
kiss_crc32_push(prev_crc, data) ==
    CrcLoop(IF prev_crc = U32_ZERO THEN Xor32(prev_crc, U32_ONES) ELSE prev_crc, data, 1)

\* int32_t kiss_verify_crc32(kiss, data, len, expected_crc)
kiss_verify_crc32(data, expected_crc) ==
    IF expected_crc = kiss_crc32(data) THEN KISS_OK ELSE 1

(* ---------------- the instance ----------------------------------------- *)
\* kiss->buffer[kiss->index] = b; kiss->index++;
Store(kiss, b) ==
    [kiss EXCEPT !.buffer[kiss.index] = b, !.index = @ + 1]

\* kiss->Status = KISS_STATUS_ERROR_STATE; return code;
Abort(kiss, code) == [kiss |-> [kiss EXCEPT !.Status = KISS_STATUS_ERROR_STATE], ret |-> code]

\* kiss_init as it would be without the check of the padding
InitAnyPadding(kiss, buffer, buffer_size, tx_delay, write, read, padding) ==
    IF kiss = NULL \/ buffer_size = 0 \/ buffer = NULL
    THEN [kiss |-> kiss, ret |-> KISS_ERR_INVALID_PARAMS]
    ELSE IF buffer_size < 3
    THEN [kiss |-> kiss, ret |-> KISS_ERR_INVALID_PARAMS]
    ELSE [kiss |-> [buffer |-> buffer, TXdelay |-> tx_delay, buffer_size |-> buffer_size,
                    index |-> 0, write |-> write, read |-> read,
                    Status |-> KISS_STATUS_NOTHING, padding |-> padding],
          ret |-> KISS_OK]

\* int32_t kiss_init(kiss, buffer, buffer_size, tx_delay, write, read, context, padding)
kiss_init(kiss, buffer, buffer_size, tx_delay, write, read, padding) ==
    IF kiss = NULL \/ buffer_size = 0 \/ buffer = NULL
    THEN [kiss |-> kiss, ret |-> KISS_ERR_INVALID_PARAMS]
    ELSE IF buffer_size < 3
    THEN [kiss |-> kiss, ret |-> KISS_ERR_INVALID_PARAMS]
    ELSE IF padding > KISS_MAX_PADDING
    THEN [kiss |-> kiss, ret |-> KISS_ERR_PADDING_OVERFLOW]
    ELSE [kiss |-> [buffer |-> buffer, TXdelay |-> tx_delay, buffer_size |-> buffer_size,
                    index |-> 0, write |-> write, read |-> read,
                    Status |-> KISS_STATUS_NOTHING, padding |-> padding],
          ret |-> KISS_OK]

(* ---------------- kiss_encode ------------------------------------------ *)
\* the header write of kiss_encode: escaped for FESC and FEND, no capacity check
EncodeHeader(kiss, header) ==
    IF header = KISS_FESC THEN Store(Store(kiss, KISS_FESC), KISS_TFESC)
    ELSE IF header = KISS_FEND THEN Store(Store(kiss, KISS_FESC), KISS_TFEND)
    ELSE Store(kiss, header)

\* the loop body as it would be with the FESC branch (lines 265-276) missing:
\* 0xDB goes out as it is
EncodeByteRawFesc(kiss, b) ==
    IF b = KISS_FEND
    THEN IF kiss.index + 2 > kiss.buffer_size
         THEN Abort(kiss, KISS_ERR_BUFFER_OVERFLOW)
         ELSE [kiss |-> Store(Store(kiss, KISS_FESC), KISS_TFEND), ret |-> KISS_OK]
    ELSE IF kiss.index + 1 > kiss.buffer_size
         THEN Abort(kiss, KISS_ERR_BUFFER_OVERFLOW)
         ELSE [kiss |-> Store(kiss, b), ret |-> KISS_OK]

\* the body of the payload loop of kiss_encode for one byte b: the capacity
\* check, then the byte or its escape pair
EncodeByte(kiss, b) ==
    IF b = KISS_FEND
    THEN IF kiss.index + 2 > kiss.buffer_size
         THEN Abort(kiss, KISS_ERR_BUFFER_OVERFLOW)
         ELSE [kiss |-> Store(Store(kiss, KISS_FESC), KISS_TFEND), ret |-> KISS_OK]
    ELSE IF b = KISS_FESC
    THEN IF kiss.index + 2 > kiss.buffer_size
         THEN Abort(kiss, KISS_ERR_BUFFER_OVERFLOW)
         ELSE [kiss |-> Store(Store(kiss, KISS_FESC), KISS_TFESC), ret |-> KISS_OK]
    ELSE IF kiss.index + 1 > kiss.buffer_size
         THEN Abort(kiss, KISS_ERR_BUFFER_OVERFLOW)
         ELSE [kiss |-> Store(kiss, b), ret |-> KISS_OK]

RECURSIVE EncodeLoop(_, _, _)
\* for (i = 0; i < length; i++) of kiss_encode, from data[i] (1-based) on
EncodeLoop(kiss, data, i) ==
    IF i > Len(data) THEN [kiss |-> kiss, ret |-> KISS_OK]
    ELSE LET r == EncodeByte(kiss, data[i])
         IN  IF r.ret # KISS_OK THEN r ELSE EncodeLoop(r.kiss, data, i + 1)

\* the terminating FEND as it would be without its capacity check
EncodeTerminateUnchecked(kiss) == [kiss |-> Store(kiss, KISS_FEND), ret |-> KISS_OK]

\* the terminating FEND of kiss_encode, with its capacity check
EncodeTerminate(kiss) ==
    IF kiss.index + 1 > kiss.buffer_size
    THEN Abort(kiss, KISS_ERR_BUFFER_OVERFLOW)
    ELSE [kiss |-> Store(kiss, KISS_FEND), ret |-> KISS_OK]

\* kiss_encode as it would be if it went on from the index that the previous
\* operation left
EncodeNoReset(kiss, data, header) ==
    IF kiss = NULL THEN [kiss |-> kiss, ret |-> KISS_ERR_INVALID_PARAMS]
    ELSE IF kiss.buffer = NULL THEN [kiss |-> kiss, ret |-> KISS_ERR_INVALID_PARAMS]
    ELSE IF kiss.buffer_size < 3 THEN [kiss |-> kiss, ret |-> KISS_ERR_BUFFER_OVERFLOW]
    ELSE LET k0 == Store(kiss, KISS_FEND)
             k1 == EncodeHeader(k0, header)
             r2 == EncodeLoop(k1, data, 1)
         IN  IF r2.ret # KISS_OK THEN r2
             ELSE LET r3 == EncodeTerminate(r2.kiss)
                  IN  IF r3.ret # KISS_OK THEN r3
                      ELSE [kiss |-> [r3.kiss EXCEPT !.Status = KISS_STATUS_TRANSMITTING],
                            ret |-> KISS_OK]

\* int32_t kiss_encode(kiss, data, length, header); data is the sequence of
\* its length bytes
kiss_encode(kiss, data, header) ==
    IF kiss = NULL THEN [kiss |-> kiss, ret |-> KISS_ERR_INVALID_PARAMS]
    ELSE IF kiss.buffer = NULL THEN [kiss |-> kiss, ret |-> KISS_ERR_INVALID_PARAMS]
    ELSE IF kiss.buffer_size < 3 THEN [kiss |-> kiss, ret |-> KISS_ERR_BUFFER_OVERFLOW]
    ELSE LET k0 == Store([kiss EXCEPT !.index = 0], KISS_FEND)
             k1 == EncodeHeader(k0, header)
             r2 == EncodeLoop(k1, data, 1)
         IN  IF r2.ret # KISS_OK THEN r2
             ELSE LET r3 == EncodeTerminate(r2.kiss)
                  IN  IF r3.ret # KISS_OK THEN r3
                      ELSE [kiss |-> [r3.kiss EXCEPT !.Status = KISS_STATUS_TRANSMITTING],
                            ret |-> KISS_OK]

(* ---------------- kiss_push_encode ------------------------------------- *)
\* the loop body as it would be with the FEND branch missing: 0xC0 goes out
\* as it is
PushByteRawFend(kiss, b) ==
    IF b = KISS_FESC
    THEN IF kiss.index + 2 > kiss.buffer_size
         THEN Abort(kiss, KISS_ERR_BUFFER_OVERFLOW)
         ELSE [kiss |-> Store(Store(kiss, KISS_FESC), KISS_TFESC), ret |-> KISS_OK]
    ELSE IF kiss.index + 1 > kiss.buffer_size
         THEN Abort(kiss, KISS_ERR_BUFFER_OVERFLOW)
         ELSE [kiss |-> Store(kiss, b), ret |-> KISS_OK]

\* the body of the loop of kiss_push_encode for one byte b
PushByte(kiss, b) ==
    IF b = KISS_FEND
    THEN IF kiss.index + 2 > kiss.buffer_size
         THEN Abort(kiss, KISS_ERR_BUFFER_OVERFLOW)
         ELSE [kiss |-> Store(Store(kiss, KISS_FESC), KISS_TFEND), ret |-> KISS_OK]
    ELSE IF b = KISS_FESC
    THEN IF kiss.index + 2 > kiss.buffer_size
         THEN Abort(kiss, KISS_ERR_BUFFER_OVERFLOW)
         ELSE [kiss |-> Store(Store(kiss, KISS_FESC), KISS_TFESC), ret |-> KISS_OK]
    ELSE IF kiss.index + 1 > kiss.buffer_size
         THEN Abort(kiss, KISS_ERR_BUFFER_OVERFLOW)
         ELSE [kiss |-> Store(kiss, b), ret |-> KISS_OK]

\* "close the frame again": the terminating FEND of kiss_push_encode
PushTerminate(kiss) ==
    IF kiss.index + 1 > kiss.buffer_size
    THEN Abort(kiss, KISS_ERR_BUFFER_OVERFLOW)
    ELSE [kiss |-> Store(kiss, KISS_FEND), ret |-> KISS_OK]

RECURSIVE PushLoop(_, _, _)
\* for (i = 0; i < length; i++) of kiss_push_encode, from data[i] (1-based) on
PushLoop(kiss, data, i) ==
    IF i > Len(data) THEN [kiss |-> kiss, ret |-> KISS_OK]
    ELSE LET r == PushByte(kiss, data[i])
         IN  IF r.ret # KISS_OK THEN r ELSE PushLoop(r.kiss, data, i + 1)

\* kiss_push_encode as it would be if the error state were not told apart
\* from the other statuses that are not Transmitting
PushEncodeOneCode(kiss, data) ==
    IF kiss = NULL \/ data = NULL \/ Len(data) = 0
    THEN [kiss |-> kiss, ret |-> KISS_ERR_INVALID_PARAMS]
    ELSE IF kiss.Status # KISS_STATUS_TRANSMITTING
    THEN [kiss |-> kiss, ret |-> KISS_ERR_INVALID_PARAMS]
    ELSE IF kiss.index = 0
    THEN [kiss |-> kiss, ret |-> KISS_ERR_INVALID_PARAMS]
    ELSE IF kiss.buffer[kiss.index - 1] # KISS_FEND
    THEN Abort(kiss, KISS_ERR_INVALID_FRAME)
    ELSE LET r1 == PushLoop([kiss EXCEPT !.index = @ - 1], data, 1)
         IN  IF r1.ret # KISS_OK THEN r1
             ELSE PushTerminate(r1.kiss)

\* int32_t kiss_push_encode(kiss, data, length)
kiss_push_encode(kiss, data) ==
    IF kiss = NULL \/ data = NULL \/ Len(data) = 0
    THEN [kiss |-> kiss, ret |-> KISS_ERR_INVALID_PARAMS]
    ELSE IF kiss.Status = KISS_STATUS_ERROR_STATE
    THEN [kiss |-> kiss, ret |-> KISS_ERR_STATUS]
    ELSE IF kiss.Status # KISS_STATUS_TRANSMITTING
    THEN [kiss |-> kiss, ret |-> KISS_ERR_INVALID_PARAMS]
    ELSE IF kiss.index = 0
    THEN [kiss |-> kiss, ret |-> KISS_ERR_INVALID_PARAMS]
    ELSE IF kiss.buffer[kiss.index - 1] # KISS_FEND
    THEN Abort(kiss, KISS_ERR_INVALID_FRAME)
    ELSE LET r1 == PushLoop([kiss EXCEPT !.index = @ - 1], data, 1)
         IN  IF r1.ret # KISS_OK THEN r1
             ELSE PushTerminate(r1.kiss)

(* ---------------- kiss_decode ------------------------------------------ *)
\* the caller's variables a decode writes through its pointers: the bytes
\* stored through output, *output_length and *header.  UNSET marks a variable
\* the caller has not initialised and no call has written.
UNSET == -1
NoOut == [output |-> << >>, output_length |-> UNSET, header |-> UNSET]

\* the caller's output array after this call stored the bytes dst at its start
Overlay(dst, old) ==
    IF Len(dst) >= Len(old) THEN dst ELSE dst \o SubSeq(old, Len(dst) + 1, Len(old))

RECURSIVE SkipPadding(_, _)
\* while (src < src_end && KISS_FEND == *src) src++;
SkipPadding(kiss, src) ==
    IF src < kiss.index /\ kiss.buffer[src] = KISS_FEND
    THEN SkipPadding(kiss, src + 1) ELSE src

RECURSIVE DecodeLoop(_, _, _, _)
\* "MAIN LOOP (Payload)" of kiss_decode from position src with dst the bytes
\* stored so far: the status left, the result, the bytes stored, and whether
\* the loop ended (by the final FEND or the end of the valid bytes)
DecodeLoop(kiss, src, dst, output_max_size) ==
    IF src >= kiss.index THEN [kiss |-> kiss, ret |-> KISS_OK, dst |-> dst]
    ELSE LET byte == kiss.buffer[src]
         IN  IF byte = KISS_FEND THEN [kiss |-> kiss, ret |-> KISS_OK, dst |-> dst]
             ELSE IF byte = KISS_FESC
             THEN IF src + 1 >= kiss.index
                  THEN [kiss |-> [kiss EXCEPT !.Status = KISS_STATUS_ERROR_STATE],
                        ret |-> KISS_ERR_INVALID_FRAME, dst |-> dst]
                  ELSE LET nxt == kiss.buffer[src + 1]
                       IN  IF nxt # KISS_TFEND /\ nxt # KISS_TFESC
                           THEN [kiss |-> [kiss EXCEPT !.Status = KISS_STATUS_ERROR_STATE],
                                 ret |-> KISS_ERR_INVALID_FRAME, dst |-> dst]
                           ELSE IF Len(dst) >= output_max_size
                           THEN [kiss |-> kiss, ret |-> KISS_ERR_BUFFER_OVERFLOW, dst |-> dst]
                           ELSE DecodeLoop(kiss, src + 2,
                                    Append(dst, IF nxt = KISS_TFEND THEN KISS_FEND ELSE KISS_FESC),
                                    output_max_size)
             ELSE IF Len(dst) >= output_max_size
             THEN [kiss |-> kiss, ret |-> KISS_ERR_BUFFER_OVERFLOW, dst |-> dst]
             ELSE DecodeLoop(kiss, src + 1, Append(dst, byte), output_max_size)

\* the payload part as it would be without the store through header
DecodePayloadNoHeader(kiss, src, val, output_max_size, out) ==
    LET r == DecodeLoop(kiss, src, << >>, output_max_size)
    IN  [kiss |-> r.kiss, ret |-> r.ret,
         out |-> [output |-> Overlay(r.dst, out.output),
                  output_length |-> IF r.ret = KISS_OK THEN Len(r.dst) ELSE out.output_length,
                  header |-> out.header]]

\* the payload part as it would be if an invalid escape sequence ended the
\* payload instead of failing the decode
DecodePayloadLenient(kiss, src, val, output_max_size, out) ==
    LET r == DecodeLoop(kiss, src, << >>, output_max_size)
    IN  [kiss |-> kiss, ret |-> IF r.ret = KISS_ERR_INVALID_FRAME THEN KISS_OK ELSE r.ret,
         out |-> [output |-> Overlay(r.dst, out.output),
                  output_length |-> IF r.ret # KISS_ERR_BUFFER_OVERFLOW THEN Len(r.dst)
                                    ELSE out.output_length,
                  header |-> val]]

\* the payload part as it would be without the test of the capacity ahead
\* of each store
DecodePayloadUnbounded(kiss, src, val, output_max_size, out) ==
    LET r == DecodeLoop(kiss, src, << >>, kiss.index)
    IN  [kiss |-> r.kiss, ret |-> r.ret,
         out |-> [output |-> Overlay(r.dst, out.output),
                  output_length |-> IF r.ret = KISS_OK THEN Len(r.dst) ELSE out.output_length,
                  header |-> val]]

\* the payload part of kiss_decode once the header val is known: *header = val,
\* the main loop, and on KISS_OK *output_length = dst - output
DecodePayload(kiss, src, val, output_max_size, out) ==
    LET r == DecodeLoop(kiss, src, << >>, output_max_size)
    IN  [kiss |-> r.kiss, ret |-> r.ret,
         out |-> [output |-> Overlay(r.dst, out.output),
                  output_length |-> IF r.ret = KISS_OK THEN Len(r.dst) ELSE out.output_length,
                  header |-> val]]

\* kiss_decode past its parameter and status checks: the padding skip, the
\* header and the payload
DecodeFrame(kiss, output_max_size, out) ==
    LET src == SkipPadding(kiss, 0)
        err == [kiss EXCEPT !.Status = KISS_STATUS_ERROR_STATE]
    IN  IF src >= kiss.index
        THEN [kiss |-> err, ret |-> KISS_ERR_INVALID_FRAME,
              out |-> [out EXCEPT !.output_length = 0]]
        ELSE LET val == kiss.buffer[src]
             IN  IF val = KISS_FESC
                 THEN IF src + 1 >= kiss.index
                      THEN [kiss |-> err, ret |-> KISS_ERR_INVALID_FRAME, out |-> out]
                      ELSE LET esc == kiss.buffer[src + 1]
                           IN  IF esc = KISS_TFEND
                               THEN DecodePayload(kiss, src + 2, KISS_FEND, output_max_size, out)
                               ELSE IF esc = KISS_TFESC
                               THEN DecodePayload(kiss, src + 2, KISS_FESC, output_max_size, out)
                               ELSE [kiss |-> err, ret |-> KISS_ERR_INVALID_FRAME, out |-> out]
                 ELSE IF val = KISS_FEND
                 THEN [kiss |-> kiss, ret |-> KISS_OK,
                       out |-> [out EXCEPT !.output_length = 0]]
                 ELSE DecodePayload(kiss, src + 1, val, output_max_size, out)

\* kiss_decode as it would be without the check of the status
DecodeUngated(kiss, output_max_size, out) ==
    IF kiss = NULL THEN [kiss |-> kiss, ret |-> KISS_ERR_INVALID_PARAMS, out |-> out]
    ELSE DecodeFrame(kiss, output_max_size, out)

\* kiss_decode as it would be if a successful decode used up the frame
DecodeConsuming(kiss, output_max_size, out) ==
    IF kiss = NULL THEN [kiss |-> kiss, ret |-> KISS_ERR_INVALID_PARAMS, out |-> out]
    ELSE IF kiss.Status # KISS_STATUS_RECEIVED
    THEN [kiss |-> kiss, ret |-> KISS_ERR_STATUS, out |-> out]
    ELSE LET r == DecodeFrame(kiss, output_max_size, out)
         IN  IF r.ret = KISS_OK THEN [r EXCEPT !.kiss.index = 0] ELSE r

\* int32_t kiss_decode(kiss, output, output_max_size, output_length, header)
\* with output, output_length and header not NULL; out holds the caller's
\* variables before the call
kiss_decode(kiss, output_max_size, out) ==
    IF kiss = NULL THEN [kiss |-> kiss, ret |-> KISS_ERR_INVALID_PARAMS, out |-> out]
    ELSE IF kiss.Status # KISS_STATUS_RECEIVED
    THEN [kiss |-> kiss, ret |-> KISS_ERR_STATUS, out |-> out]
    ELSE DecodeFrame(kiss, output_max_size, out)

(* ---------------- kiss_send_frame -------------------------------------- *)
\* kiss->buffer[0 .. kiss->index), as a sequence
Frame(kiss) == [i \in 1..kiss.index |-> kiss.buffer[i - 1]]

\* the first n bytes of kiss_padding_block
PaddingBlock(n) == [i \in 1..n |-> KISS_FEND]

\* kiss_send_frame as it would be if it sent whatever the buffer holds in
\* every status
SendFrameUngated(kiss, werr) ==
    IF kiss = NULL THEN [kiss |-> kiss, ret |-> KISS_ERR_INVALID_PARAMS, writes |-> << >>]
    ELSE IF ~kiss.write
    THEN [kiss |-> kiss, ret |-> KISS_ERR_CALLBACK_MISSING, writes |-> << >>]
    ELSE IF kiss.padding > 0 /\ werr[1] # KISS_OK
    THEN [kiss |-> [kiss EXCEPT !.Status = KISS_STATUS_ERROR_STATE], ret |-> werr[1],
          writes |-> << PaddingBlock(kiss.padding) >>]
    ELSE LET pre == IF kiss.padding > 0 THEN << PaddingBlock(kiss.padding) >> ELSE << >>
             err == werr[Len(pre) + 1]
         IN  IF err = KISS_OK
             THEN [kiss |-> [kiss EXCEPT !.Status = KISS_STATUS_TRANSMITTED], ret |-> KISS_OK,
                   writes |-> Append(pre, Frame(kiss))]
             ELSE [kiss |-> [kiss EXCEPT !.Status = KISS_STATUS_ERROR_STATE], ret |-> err,
                   writes |-> Append(pre, Frame(kiss))]

\* kiss_send_frame as it would be if a failed write of the padding did not
\* end the call
SendFramePaddingIgnored(kiss, werr) ==
    IF kiss = NULL THEN [kiss |-> kiss, ret |-> KISS_ERR_INVALID_PARAMS, writes |-> << >>]
    ELSE IF ~kiss.write
    THEN [kiss |-> kiss, ret |-> KISS_ERR_CALLBACK_MISSING, writes |-> << >>]
    ELSE IF kiss.Status # KISS_STATUS_TRANSMITTING
    THEN [kiss |-> kiss, ret |-> KISS_ERR_DATA_NOT_ENCODED, writes |-> << >>]
    ELSE IF kiss.padding > KISS_MAX_PADDING
    THEN [kiss |-> kiss, ret |-> KISS_ERR_PADDING_OVERFLOW, writes |-> << >>]
    ELSE LET pre == IF kiss.padding > 0 THEN << PaddingBlock(kiss.padding) >> ELSE << >>
             err == werr[Len(pre) + 1]
         IN  IF err = KISS_OK
             THEN [kiss |-> [kiss EXCEPT !.Status = KISS_STATUS_TRANSMITTED], ret |-> KISS_OK,
                   writes |-> Append(pre, Frame(kiss))]
             ELSE [kiss |-> [kiss EXCEPT !.Status = KISS_STATUS_ERROR_STATE], ret |-> err,
                   writes |-> Append(pre, Frame(kiss))]

\* int32_t kiss_send_frame(kiss): the instance left, the result, and the
\* calls made to the write callback in order (the bytes of each); werr[j]
\* is the code the j-th call of the callback returns
kiss_send_frame(kiss, werr) ==
    IF kiss = NULL THEN [kiss |-> kiss, ret |-> KISS_ERR_INVALID_PARAMS, writes |-> << >>]
    ELSE IF ~kiss.write
    THEN [kiss |-> kiss, ret |-> KISS_ERR_CALLBACK_MISSING, writes |-> << >>]
    ELSE IF kiss.Status # KISS_STATUS_TRANSMITTING
    THEN [kiss |-> kiss, ret |-> KISS_ERR_DATA_NOT_ENCODED, writes |-> << >>]
    ELSE IF kiss.padding > KISS_MAX_PADDING
    THEN [kiss |-> kiss, ret |-> KISS_ERR_PADDING_OVERFLOW, writes |-> << >>]
    ELSE IF kiss.padding > 0 /\ werr[1] # KISS_OK
    THEN [kiss |-> [kiss EXCEPT !.Status = KISS_STATUS_ERROR_STATE], ret |-> werr[1],
          writes |-> << PaddingBlock(kiss.padding) >>]
    ELSE LET pre == IF kiss.padding > 0 THEN << PaddingBlock(kiss.padding) >> ELSE << >>
             err == werr[Len(pre) + 1]
         IN  IF err = KISS_OK
             THEN [kiss |-> [kiss EXCEPT !.Status = KISS_STATUS_TRANSMITTED], ret |-> KISS_OK,
                   writes |-> Append(pre, Frame(kiss))]
             ELSE [kiss |-> [kiss EXCEPT !.Status = KISS_STATUS_ERROR_STATE], ret |-> err,
                   writes |-> Append(pre, Frame(kiss))]

(* ---------------- kiss_encode_crc32 / kiss_decode_crc32 ---------------- *)
\* int32_t kiss_encode_crc32(kiss, data, length, header)
kiss_encode_crc32(kiss, data, header) ==
    IF kiss = NULL \/ data = NULL \/ Len(data) = 0
    THEN [kiss |-> kiss, ret |-> KISS_ERR_INVALID_PARAMS]
    ELSE LET r1 == kiss_encode(kiss, data, header)
         IN  IF r1.ret # KISS_OK THEN r1
             ELSE LET k2 == [r1.kiss EXCEPT !.Status = KISS_STATUS_NOTHING]
                      crc == kiss_crc32(data)
                      crc_b == << crc[1], crc[2], crc[3], crc[4] >>
                      r3 == kiss_push_encode(k2, crc_b)
                  IN  IF r3.ret # KISS_OK THEN r3
                      ELSE [kiss |-> [r3.kiss EXCEPT !.Status = KISS_STATUS_TRANSMITTING],
                            ret |-> KISS_OK]

\* int32_t kiss_decode_crc32(kiss, output, max_out_size, output_length, header)
kiss_decode_crc32(kiss, max_out_size, out) ==
    IF kiss = NULL THEN [kiss |-> kiss, ret |-> KISS_ERR_INVALID_PARAMS, out |-> out]
    ELSE IF kiss.Status # KISS_STATUS_RECEIVED
    THEN [kiss |-> kiss, ret |-> KISS_ERR_NO_DATA_RECEIVED, out |-> out]
    ELSE IF kiss.index < 4
    THEN [kiss |-> kiss, ret |-> KISS_ERR_INVALID_FRAME, out |-> out]
    ELSE LET r == kiss_decode([kiss EXCEPT !.Status = KISS_STATUS_NOTHING], max_out_size, out)
         IN  IF r.ret # KISS_OK
             THEN [r EXCEPT !.kiss.Status = KISS_STATUS_ERROR_STATE]
             ELSE IF r.out.output_length > max_out_size
             THEN [r EXCEPT !.kiss.Status = KISS_STATUS_RECEIVED_ERROR,
                            !.ret = KISS_ERR_BUFFER_OVERFLOW]
             ELSE IF r.out.output_length < 4
             THEN [r EXCEPT !.kiss.Status = KISS_STATUS_RECEIVED_ERROR,
                            !.ret = KISS_ERR_INVALID_FRAME]
             ELSE LET payload_len == r.out.output_length - 4
                      o == r.out.output
                      received_crc == << o[payload_len + 1], o[payload_len + 2],
                                         o[payload_len + 3], o[payload_len + 4] >>
                      o2 == [r.out EXCEPT !.output_length = payload_len]
                  IN  IF kiss_verify_crc32(SubSeq(o, 1, payload_len), received_crc) # KISS_OK
                      THEN [kiss |-> [r.kiss EXCEPT !.Status = KISS_STATUS_RECEIVED_ERROR],
                            ret |-> KISS_ERR_CRC32_MISMATCH, out |-> o2]
                      ELSE [kiss |-> [r.kiss EXCEPT !.Status = KISS_STATUS_RECEIVED],
                            ret |-> KISS_OK, out |-> o2]

(* ---------------- kiss_receive_frame ----------------------------------- *)
\* the locals of a kiss_receive_frame that has not returned: the loop counter,
\* frame_started, new_index, new_read; oob records an access to buffer at a
\* position >= buffer_size
ReceiveLocals(maxAttempts) ==
    [maxAttempts |-> maxAttempts, attempt |-> 0, frame_started |-> FALSE,
     new_index |-> 0, new_read |-> 0, oob |-> FALSE]

\* kiss_receive_frame up to its loop: the parameter checks, index = 0,
\* Status = RECEIVING.  ret = UNSET: the call has not returned
ReceiveBegin(kiss, maxAttempts) ==
    IF kiss = NULL THEN [kiss |-> kiss, ret |-> KISS_ERR_INVALID_PARAMS]
    ELSE IF ~kiss.read THEN [kiss |-> kiss, ret |-> KISS_ERR_CALLBACK_MISSING]
    ELSE IF kiss.buffer = NULL \/ maxAttempts = 0
    THEN [kiss |-> kiss, ret |-> KISS_ERR_INVALID_PARAMS]
    ELSE [kiss |-> [kiss EXCEPT !.index = 0, !.Status = KISS_STATUS_RECEIVING], ret |-> UNSET]

\* the read callback called as read(kiss, &buffer[new_index], buffer_size, &new_read):
\* it stores cb.data from buffer[new_index] on and sets new_read to their
\* number when cb.read, and leaves both alone when not
ReadInto(kiss, loc, cb) ==
    IF cb.read
    THEN [kiss EXCEPT !.buffer = [i \in DOMAIN kiss.buffer |->
                IF i >= loc.new_index /\ i < loc.new_index + Len(cb.data)
                THEN cb.data[i - loc.new_index + 1] ELSE kiss.buffer[i]]]
    ELSE kiss

\* the end of the window the read callback is given: &buffer[new_index] and
\* a max_length of buffer_size
ReadWindow(kiss, loc) == loc.new_index + kiss.buffer_size

RECURSIVE ScanLoopNoStartCopy(_, _, _)
\* the scan as it would be if the opening FEND were counted and not copied
\* to buffer[new_index]
ScanLoopNoStartCopy(kiss, loc, i) ==
    IF i >= kiss.index THEN [kiss |-> kiss, loc |-> loc, ret |-> UNSET]
    ELSE LET b == kiss.buffer[i]
             seen == [loc EXCEPT !.oob = @ \/ i >= kiss.buffer_size]
         IN  IF ~loc.frame_started
             THEN IF b = KISS_FEND
                  THEN ScanLoopNoStartCopy(kiss,
                                [seen EXCEPT !.frame_started = TRUE, !.new_index = @ + 1],
                                i + 1)
                  ELSE ScanLoopNoStartCopy(kiss, seen, i + 1)
             ELSE IF i > 0 /\ b = KISS_FEND /\ loc.new_index <= 1
             THEN ScanLoopNoStartCopy(kiss, seen, i + 1)
             ELSE LET k2 == [kiss EXCEPT !.buffer[loc.new_index] = b]
                      l2 == [seen EXCEPT !.new_index = @ + 1]
                  IN  IF k2.buffer[i] = KISS_FEND
                      THEN IF l2.new_index < 3
                           THEN [kiss |-> [k2 EXCEPT !.index = l2.new_index,
                                                     !.Status = KISS_STATUS_ERROR_STATE],
                                 loc |-> l2, ret |-> KISS_ERR_INVALID_FRAME]
                           ELSE [kiss |-> [k2 EXCEPT !.index = l2.new_index,
                                                     !.Status = KISS_STATUS_RECEIVED],
                                 loc |-> l2, ret |-> KISS_OK]
                      ELSE ScanLoopNoStartCopy(k2, l2, i + 1)

RECURSIVE ScanLoop(_, _, _)
\* for (i = new_index; i < kiss->index; i++) from i on, new_index being
\* loc.new_index: ret = UNSET when the loop ends without a return
ScanLoop(kiss, loc, i) ==
    IF i >= kiss.index THEN [kiss |-> kiss, loc |-> loc, ret |-> UNSET]
    ELSE LET b == kiss.buffer[i]
             seen == [loc EXCEPT !.oob = @ \/ i >= kiss.buffer_size]
         IN  IF ~loc.frame_started
             THEN IF b = KISS_FEND
                  THEN ScanLoop([kiss EXCEPT !.buffer[loc.new_index] = b],
                                [seen EXCEPT !.frame_started = TRUE, !.new_index = @ + 1],
                                i + 1)
                  ELSE ScanLoop(kiss, seen, i + 1)
             ELSE IF i > 0 /\ b = KISS_FEND /\ loc.new_index <= 1
             THEN ScanLoop(kiss, seen, i + 1)
             ELSE LET k2 == [kiss EXCEPT !.buffer[loc.new_index] = b]
                      l2 == [seen EXCEPT !.new_index = @ + 1]
                  IN  IF k2.buffer[i] = KISS_FEND
                      THEN IF l2.new_index < 3
                           THEN [kiss |-> [k2 EXCEPT !.index = l2.new_index,
                                                     !.Status = KISS_STATUS_ERROR_STATE],
                                 loc |-> l2, ret |-> KISS_ERR_INVALID_FRAME]
                           ELSE [kiss |-> [k2 EXCEPT !.index = l2.new_index,
                                                     !.Status = KISS_STATUS_RECEIVED],
                                 loc |-> l2, ret |-> KISS_OK]
                      ELSE ScanLoop(k2, l2, i + 1)

\* One round of the attempt loop as it would be if the loop went on while
\* attempt <= maxAttempts
ReceiveAttemptOneMore(kiss, loc, cb) ==
    LET new_read == IF cb.read THEN Len(cb.data) ELSE loc.new_read
        k1 == [ReadInto(kiss, loc, cb) EXCEPT !.index = @ + new_read]
        l1 == [loc EXCEPT !.new_read = new_read,
                          !.oob = @ \/ (cb.read /\ loc.new_index + Len(cb.data) > kiss.buffer_size)]
    IN  IF cb.err # KISS_OK
        THEN [kiss |-> [k1 EXCEPT !.Status = KISS_STATUS_ERROR_STATE], loc |-> l1,
              ret |-> cb.err]
        ELSE LET r == ScanLoop(k1, l1, l1.new_index)
                 l2 == [r.loc EXCEPT !.attempt = @ + 1]
             IN  IF r.ret # UNSET THEN r
                 ELSE IF l2.attempt <= l2.maxAttempts
                 THEN [kiss |-> r.kiss, loc |-> l2, ret |-> UNSET]
                 ELSE [kiss |-> r.kiss, loc |-> l2, ret |-> KISS_ERR_NO_DATA_RECEIVED]

\* one round of the attempt loop of kiss_receive_frame, the read callback
\* answering cb: the read, index += new_read, the error return, the scan, and
\* after the last round the return of KISS_ERR_NO_DATA_RECEIVED
ReceiveAttempt(kiss, loc, cb) ==
    LET new_read == IF cb.read THEN Len(cb.data) ELSE loc.new_read
        k1 == [ReadInto(kiss, loc, cb) EXCEPT !.index = @ + new_read]
        l1 == [loc EXCEPT !.new_read = new_read,
                          !.oob = @ \/ (cb.read /\ loc.new_index + Len(cb.data) > kiss.buffer_size)]
    IN  IF cb.err # KISS_OK
        THEN [kiss |-> [k1 EXCEPT !.Status = KISS_STATUS_ERROR_STATE], loc |-> l1,
              ret |-> cb.err]
        ELSE LET r == ScanLoop(k1, l1, l1.new_index)
                 l2 == [r.loc EXCEPT !.attempt = @ + 1]
             IN  IF r.ret # UNSET THEN r
                 ELSE IF l2.attempt < l2.maxAttempts
                 THEN [kiss |-> r.kiss, loc |-> l2, ret |-> UNSET]
                 ELSE [kiss |-> r.kiss, loc |-> l2, ret |-> KISS_ERR_NO_DATA_RECEIVED]

\* what a read callback answers that finds nothing: *read = 0, return 0
NoBytes == [err |-> KISS_OK, read |-> TRUE, data |-> << >>]

RECURSIVE ReceiveRun(_, _, _)
\* the attempt loop of kiss_receive_frame run to its return, the read callback
\* answering reads[1], reads[2], ... and NoBytes after them
ReceiveRun(kiss, loc, reads) ==
    LET r == ReceiveAttempt(kiss, loc, IF reads = << >> THEN NoBytes ELSE Head(reads))
    IN  IF r.ret # UNSET THEN r
        ELSE ReceiveRun(r.kiss, r.loc, IF reads = << >> THEN reads ELSE Tail(reads))

\* int32_t kiss_receive_frame(kiss, maxAttempts), the read callback answering
\* reads; loc holds the locals at the return
kiss_receive_frame(kiss, maxAttempts, reads) ==
    LET b == ReceiveBegin(kiss, maxAttempts)
    IN  IF b.ret # UNSET
        THEN [kiss |-> b.kiss, loc |-> ReceiveLocals(maxAttempts), ret |-> b.ret]
        ELSE ReceiveRun(b.kiss, ReceiveLocals(maxAttempts), reads)

(* ---------------- kiss_receive_and_decode ------------------------------ *)
\* int32_t kiss_receive_and_decode(kiss, output, output_max_size, output_length,
\* maxAttempts, header) with output and output_length not NULL
kiss_receive_and_decode(kiss, output_max_size, out, maxAttempts, reads) ==
    IF kiss = NULL THEN [kiss |-> kiss, ret |-> KISS_ERR_INVALID_PARAMS, out |-> out]
    ELSE IF kiss.buffer_size = 0 \/ maxAttempts = 0
    THEN [kiss |-> kiss, ret |-> KISS_ERR_INVALID_PARAMS, out |-> out]
    ELSE LET r == kiss_receive_frame(kiss, maxAttempts, reads)
         IN  IF r.ret # KISS_OK THEN [kiss |-> r.kiss, ret |-> r.ret, out |-> out]
             ELSE kiss_decode(r.kiss, output_max_size, out)

(* ---------------- kiss_set_param / kiss_request_param ------------------ *)
(* ---------------- kiss_encode_and_send, kiss_set_TXdelay ---------------- *)
\* int32_t kiss_encode_and_send(kiss, data, length, header)
kiss_encode_and_send(kiss, data, header, werr) ==
    LET r == kiss_encode(kiss, data, header)
    IN  IF r.ret # KISS_OK THEN [kiss |-> r.kiss, ret |-> r.ret, writes |-> << >>]
        ELSE kiss_send_frame(r.kiss, werr)

\* kiss_set_TXdelay as it would be if it sent the frame and left the field alone
SetTXdelaySendOnly(kiss, tx_delay, werr) ==
    IF kiss = NULL \/ tx_delay = 0
    THEN [kiss |-> kiss, ret |-> KISS_ERR_INVALID_PARAMS, writes |-> << >>]
    ELSE IF kiss.buffer = NULL
    THEN [kiss |-> kiss, ret |-> KISS_ERR_INVALID_PARAMS, writes |-> << >>]
    ELSE IF kiss.buffer_size < 4
    THEN [kiss |-> kiss, ret |-> KISS_ERR_BUFFER_OVERFLOW, writes |-> << >>]
    ELSE kiss_encode_and_send(kiss, << tx_delay >>, KISS_HEADER_TX_DELAY, werr)

\* int32_t kiss_set_TXdelay(kiss, tx_delay)
kiss_set_TXdelay(kiss, tx_delay, werr) ==
    IF kiss = NULL \/ tx_delay = 0
    THEN [kiss |-> kiss, ret |-> KISS_ERR_INVALID_PARAMS, writes |-> << >>]
    ELSE IF kiss.buffer = NULL
    THEN [kiss |-> kiss, ret |-> KISS_ERR_INVALID_PARAMS, writes |-> << >>]
    ELSE IF kiss.buffer_size < 4
    THEN [kiss |-> kiss, ret |-> KISS_ERR_BUFFER_OVERFLOW, writes |-> << >>]
    ELSE kiss_encode_and_send([kiss EXCEPT !.TXdelay = tx_delay], << tx_delay >>,
                              KISS_HEADER_TX_DELAY, werr)

(* ---------------- kiss_set_param, kiss_request_param -------------------- *)
\* The ID as it would be sent high byte first
IdBytesHighFirst(ID) == << (ID \div 256) % 256, ID % 256 >>

\* uint8_t id_[2] = {(uint8_t) ID, (uint8_t)(ID >> 8)}
IdBytes(ID) == << ID % 256, (ID \div 256) % 256 >>

\* kiss_set_param as it would be if it sent the frame of the ID without the
\* value
SetParamIdOnly(kiss, ID, param, werr) ==
    IF kiss = NULL \/ param = NULL
    THEN [kiss |-> kiss, ret |-> KISS_ERR_INVALID_PARAMS, writes |-> << >>]
    ELSE IF kiss.buffer_size < 5 + Len(param)
    THEN [kiss |-> kiss, ret |-> KISS_ERR_BUFFER_OVERFLOW, writes |-> << >>]
    ELSE LET r1 == kiss_encode(kiss, IdBytes(ID), KISS_HEADER_SET_PARAM)
         IN  IF r1.ret # KISS_OK THEN [kiss |-> r1.kiss, ret |-> r1.ret, writes |-> << >>]
             ELSE kiss_send_frame([r1.kiss EXCEPT !.Status = KISS_STATUS_TRANSMITTING], werr)

\* int32_t kiss_set_param(kiss, ID, param, len); param is the sequence of its
\* len bytes, werr what the write callback returns at its calls
kiss_set_param(kiss, ID, param, werr) ==
    IF kiss = NULL \/ param = NULL
    THEN [kiss |-> kiss, ret |-> KISS_ERR_INVALID_PARAMS, writes |-> << >>]
    ELSE IF kiss.buffer_size < 5 + Len(param)
    THEN [kiss |-> kiss, ret |-> KISS_ERR_BUFFER_OVERFLOW, writes |-> << >>]
    ELSE LET r1 == kiss_encode(kiss, IdBytes(ID), KISS_HEADER_SET_PARAM)
         IN  IF r1.ret # KISS_OK THEN [kiss |-> r1.kiss, ret |-> r1.ret, writes |-> << >>]
             ELSE LET r2 == kiss_push_encode(r1.kiss, param)
                  IN  IF r2.ret # KISS_OK
                      THEN [kiss |-> r2.kiss, ret |-> r2.ret, writes |-> << >>]
                      ELSE kiss_send_frame([r2.kiss EXCEPT !.Status = KISS_STATUS_TRANSMITTING],
                                           werr)

\* int32_t kiss_set_param_crc32(kiss, ID, param, len); param is the sequence
\* of its len bytes, werr what the write callback returns at its calls.
\* CRC = kiss_crc32(kiss, id_, 2); CRC = ~kiss_crc32_push(kiss, CRC, param, len);
\* crc_b[0..3] are the bytes of CRC from the low one up
kiss_set_param_crc32(kiss, ID, param, werr) ==
    IF kiss = NULL \/ param = NULL
    THEN [kiss |-> kiss, ret |-> KISS_ERR_INVALID_PARAMS, writes |-> << >>]
    ELSE IF kiss.buffer = NULL
    THEN [kiss |-> kiss, ret |-> KISS_ERR_INVALID_PARAMS, writes |-> << >>]
    ELSE IF kiss.Status = KISS_STATUS_ERROR_STATE
    THEN [kiss |-> kiss, ret |-> KISS_ERR_STATUS, writes |-> << >>]
    ELSE LET CRC == Not32(kiss_crc32_push(kiss_crc32(IdBytes(ID)), param))
             r1 == kiss_encode(kiss, IdBytes(ID), KISS_HEADER_SET_PARAM)
         IN  IF r1.ret # KISS_OK THEN [kiss |-> r1.kiss, ret |-> r1.ret, writes |-> << >>]
             ELSE LET r2 == kiss_push_encode(r1.kiss, param)
                  IN  IF r2.ret # KISS_OK
                      THEN [kiss |-> r2.kiss, ret |-> r2.ret, writes |-> << >>]
                      ELSE LET r3 == kiss_push_encode(r2.kiss, CRC)
                           IN  IF r3.ret # KISS_OK
                               THEN [kiss |-> r3.kiss, ret |-> r3.ret, writes |-> << >>]
                               ELSE kiss_send_frame(
                                        [r3.kiss EXCEPT !.Status = KISS_STATUS_TRANSMITTING],
                                        werr)

\* int32_t kiss_request_param(kiss, ID, output, max_out_size, output_length,
\* maxAttempts, expected_header) with output and output_length not NULL; the
\* header of the answer goes to a local of the function; received tells
\* whether the function went on to kiss_receive_and_decode
kiss_request_param(kiss, ID, max_out_size, out, maxAttempts, expected_header, werr, reads) ==
    IF kiss = NULL
    THEN [kiss |-> kiss, ret |-> KISS_ERR_INVALID_PARAMS, writes |-> << >>, out |-> out,
          received |-> FALSE]
    ELSE IF kiss.buffer_size < 5
    THEN [kiss |-> kiss, ret |-> KISS_ERR_BUFFER_OVERFLOW, writes |-> << >>, out |-> out,
          received |-> FALSE]
    ELSE LET r1 == kiss_encode(kiss, IdBytes(ID), KISS_HEADER_REQUEST_PARAM)
         IN  IF r1.ret # KISS_OK
             THEN [kiss |-> r1.kiss, ret |-> r1.ret, writes |-> << >>, out |-> out,
                   received |-> FALSE]
             ELSE LET r2 == kiss_send_frame([r1.kiss EXCEPT !.Status = KISS_STATUS_TRANSMITTING],
                                            werr)
                  IN  IF r2.ret # KISS_OK
                      THEN [kiss |-> r2.kiss, ret |-> r2.ret, writes |-> r2.writes, out |-> out,
                            received |-> FALSE]
                      ELSE LET r3 == kiss_receive_and_decode(r2.kiss, max_out_size,
                                        [out EXCEPT !.header = UNSET], maxAttempts, reads)
                               o3 == [r3.out EXCEPT !.header = out.header]
                           IN  [kiss |-> r3.kiss, writes |-> r2.writes, out |-> o3, received |-> TRUE,
                                ret |-> IF r3.ret # KISS_OK THEN r3.ret
                                        ELSE IF r3.out.header # expected_header
                                        THEN KISS_ERR_INVALID_FRAME ELSE r3.ret]

(* ---------------- kiss_extract_param ----------------------------------- *)
\* the caller's ID, param array and param_length before any call wrote them
NoParam(mem) == [ID |-> UNSET, param |-> [i \in 1..mem |-> UNSET], param_length |-> UNSET]

RECURSIVE ExtractLoop(_, _, _, _, _)
\* for (i = 2; i < out_len && index < max_param_size; i++) param[index++] = out[i];
\* o is the decoded payload, i and index are 0-based as in the code
ExtractLoop(o, i, index, max_param_size, param) ==
    IF i < Len(o) /\ index < max_param_size
    THEN ExtractLoop(o, i + 1, index + 1, max_param_size,
                     [param EXCEPT ![index + 1] = o[i + 1]])
    ELSE [param |-> param, index |-> index]

\* kiss_extract_param as it would be if it took a frame under any header
ExtractParamAnyHeader(kiss, max_param_size, res) ==
    IF kiss = NULL THEN [kiss |-> kiss, ret |-> KISS_ERR_INVALID_PARAMS, res |-> res]
    ELSE IF kiss.Status # KISS_STATUS_RECEIVED
    THEN [kiss |-> kiss, ret |-> KISS_ERR_NO_DATA_RECEIVED, res |-> res]
    ELSE LET r == kiss_decode(kiss, 256, [NoOut EXCEPT !.output_length = 0])
             o == SubSeq(r.out.output, 1, r.out.output_length)
         IN  IF r.ret # KISS_OK THEN [kiss |-> r.kiss, ret |-> r.ret, res |-> res]
             ELSE IF Len(o) < 2
             THEN [kiss |-> r.kiss, ret |-> KISS_ERR_INVALID_FRAME, res |-> res]
             ELSE LET id == o[1] + 256 * o[2]
                  IN  IF res.param # NULL /\ max_param_size > 0
                      THEN LET c == ExtractLoop(o, 2, 0, max_param_size, res.param)
                           IN  [kiss |-> r.kiss, ret |-> KISS_OK,
                                res |-> [ID |-> id, param |-> c.param,
                                         param_length |-> c.index]]
                      ELSE [kiss |-> r.kiss, ret |-> KISS_OK, res |-> [res EXCEPT !.ID = id]]

\* int32_t kiss_extract_param(kiss, ID, param, max_param_size, param_length)
\* with ID and param_length not NULL; res holds the caller's ID, param array
\* (NULL or its cells) and param_length before the call.  The frame is
\* decoded into the local out[256], out_len starting at 0.
kiss_extract_param(kiss, max_param_size, res) ==
    IF kiss = NULL THEN [kiss |-> kiss, ret |-> KISS_ERR_INVALID_PARAMS, res |-> res]
    ELSE IF kiss.Status # KISS_STATUS_RECEIVED
    THEN [kiss |-> kiss, ret |-> KISS_ERR_NO_DATA_RECEIVED, res |-> res]
    ELSE LET r == kiss_decode(kiss, 256, [NoOut EXCEPT !.output_length = 0])
             o == SubSeq(r.out.output, 1, r.out.output_length)
         IN  IF r.ret # KISS_OK THEN [kiss |-> r.kiss, ret |-> r.ret, res |-> res]
             ELSE IF (/\ r.out.header # KISS_HEADER_SET_PARAM
                      /\ r.out.header # KISS_HEADER_REQUEST_PARAM) \/ Len(o) < 2
             THEN [kiss |-> r.kiss, ret |-> KISS_ERR_INVALID_FRAME, res |-> res]
             ELSE LET id == o[1] + 256 * o[2]
                  IN  IF res.param # NULL /\ max_param_size > 0
                      THEN LET c == ExtractLoop(o, 2, 0, max_param_size, res.param)
                           IN  [kiss |-> r.kiss, ret |-> KISS_OK,
                                res |-> [ID |-> id, param |-> c.param,
                                         param_length |-> c.index]]
                      ELSE [kiss |-> r.kiss, ret |-> KISS_OK, res |-> [res EXCEPT !.ID = id]]

(* ======================================================================= *)
(* The link: a sender instance tx whose write callback puts its bytes on   *)
(* the wire, and a receiver instance rx whose read callback takes them     *)
(* from it.  One frame travels per behaviour.                              *)
(* ======================================================================= *)
VARIABLES
    tx,      \* the sender's kiss_instance_t
    rx,      \* the receiver's kiss_instance_t
    wire,    \* the bytes written to the transport and not yet read
    phase,   \* where the exchange stands
    loc,     \* the locals of a kiss_receive_frame in progress
    out,     \* the receiver's output, output_length and header variables
    hist     \* what the application asked for and what each call returned

vars == << tx, rx, wire, phase, loc, out, hist >>

\* payload bytes and headers the application hands to the encoders
PayloadBytes == {65, KISS_FEND, KISS_FESC}
Headers == {0, KISS_HEADER_SET_PARAM, KISS_FEND, KISS_FESC, KISS_TFEND}
\* what the working buffer and the memory after it hold before first use
FillBytes == {0, KISS_FEND}

RECURSIVE SeqsUpTo(_, _)
\* the sequences over S of length at most n
SeqsUpTo(S, n) ==
    IF n = 0 THEN { << >> }
    ELSE LET shorter == SeqsUpTo(S, n - 1)
         IN  shorter \cup { Append(s, b) : s \in { t \in shorter : Len(t) = n - 1 }, b \in S }

Payloads == SeqsUpTo(PayloadBytes, MaxLen)

\* the instance kiss_init leaves for a buffer of buffer_size bytes filled with fill
Fresh(buffer_size, padding, fill) ==
    kiss_init([fresh |-> TRUE], [i \in 0..(MemSize - 1) |-> fill], buffer_size, 1,
              TRUE, TRUE, padding).kiss

NoHist ==
    [P |-> << >>, A |-> << >>, H |-> UNSET, crc |-> FALSE, pushed |-> FALSE, peer |-> FALSE,
     encRet |-> UNSET, pushRet |-> UNSET, sendRet |-> UNSET, rcvRet |-> UNSET,
     decRet |-> UNSET, dcrc |-> FALSE, sent |-> << >>, flip |-> << >>]

Init ==
    /\ \E bs \in 3..MaxBuf, pad \in 0..MaxPad, fill \in FillBytes :
          /\ tx = Fresh(bs, pad, fill)
          /\ rx = Fresh(bs, pad, fill)
    /\ wire = << >>
    /\ phase = "idle"
    /\ loc = ReceiveLocals(0)
    /\ out = NoOut
    /\ hist = NoHist

\* the application calls kiss_encode(tx, P, Len(P), H)
Encode ==
    /\ phase = "idle"
    /\ \E P \in Payloads, H \in Headers :
          LET r == kiss_encode(tx, P, H)
          IN  /\ tx' = r.kiss
              /\ hist' = [hist EXCEPT !.P = P, !.A = P, !.H = H, !.encRet = r.ret]
    /\ phase' = "encoded"
    /\ UNCHANGED << rx, wire, loc, out >>

\* the application calls kiss_encode_crc32(tx, P, Len(P), H)
EncodeCrc32 ==
    /\ phase = "idle"
    /\ \E P \in Payloads, H \in Headers :
          LET r == kiss_encode_crc32(tx, P, H)
          IN  /\ tx' = r.kiss
              /\ hist' = [hist EXCEPT !.P = P, !.A = P, !.H = H, !.crc = TRUE,
                                      !.encRet = r.ret]
    /\ phase' = "encoded"
    /\ UNCHANGED << rx, wire, loc, out >>

\* the application calls kiss_push_encode(tx, B, Len(B)) once after an encode
PushEncode ==
    /\ phase = "encoded"
    /\ ~hist.pushed
    /\ \E B \in SeqsUpTo(PayloadBytes, MaxPush) :
          /\ Len(B) > 0
          /\ Len(hist.P) + Len(B) <= MaxLen
          /\ LET r == kiss_push_encode(tx, B)
             IN  /\ tx' = r.kiss
                 /\ hist' = [hist EXCEPT !.P = @ \o B, !.pushed = TRUE, !.pushRet = r.ret]
    /\ UNCHANGED << rx, wire, phase, loc, out >>

RECURSIVE Flatten(_)
\* the bytes of a sequence of writes, in order
Flatten(ws) == IF ws = << >> THEN << >> ELSE Head(ws) \o Flatten(Tail(ws))

\* the application calls kiss_send_frame(tx); the write callback appends to
\* the wire and returns 0
SendFrame ==
    /\ phase = "encoded"
    /\ LET r == kiss_send_frame(tx, << KISS_OK, KISS_OK >>)
       IN  /\ tx' = r.kiss
           /\ wire' = wire \o Flatten(r.writes)
           /\ hist' = [hist EXCEPT !.sendRet = r.ret, !.sent = Frame(tx)]
    /\ phase' = "sent"
    /\ UNCHANGED << rx, loc, out >>

\* the receiving application calls kiss_receive_frame(rx, MaxAttempts) once
\* something was written to the wire
ReceiveFrame ==
    /\ phase = "sent"
    /\ wire # << >>
    /\ LET r == ReceiveBegin(rx, MaxAttempts)
       IN  /\ rx' = r.kiss
           /\ loc' = ReceiveLocals(MaxAttempts)
           /\ hist' = [hist EXCEPT !.rcvRet = r.ret]
           /\ phase' = IF r.ret = UNSET THEN "receiving" ELSE "received"
    /\ UNCHANGED << tx, wire, out >>

\* what the read callback of the link hands over when asked for max_length
\* bytes: as many bytes of the wire as there are, up to max_length (fread)
WireRead(max_length) ==
    LET n == IF Len(wire) < max_length THEN Len(wire) ELSE max_length
    IN  [err |-> KISS_OK, read |-> TRUE, data |-> SubSeq(wire, 1, n)]

\* one read of the kiss_receive_frame in progress and the scan after it.  A
\* round that touched memory outside the buffer has undefined behaviour: the
\* program goes on with the memory after the buffer overwritten, or it stops.
ReadAttempt ==
    /\ phase = "receiving"
    /\ LET cb == WireRead(rx.buffer_size)
           r == ReceiveAttempt(rx, loc, cb)
       IN  /\ wire' = SubSeq(wire, Len(cb.data) + 1, Len(wire))
           /\ \/ /\ rx' = r.kiss
                 /\ loc' = r.loc
                 /\ hist' = [hist EXCEPT !.rcvRet = r.ret]
                 /\ phase' = IF r.ret = UNSET THEN "receiving" ELSE "received"
              \/ /\ r.loc.oob
                 /\ rx' = r.kiss
                 /\ loc' = r.loc
                 /\ hist' = hist
                 /\ phase' = "crashed"
    /\ UNCHANGED << tx, out >>

\* the receiving application calls kiss_decode(rx, output, MaxBuf, ...)
Decode ==
    /\ phase = "received"
    /\ LET r == kiss_decode(rx, MaxBuf, NoOut)
       IN  /\ rx' = r.kiss
           /\ out' = r.out
           /\ hist' = [hist EXCEPT !.decRet = r.ret]
    /\ phase' = "decoded"
    /\ UNCHANGED << tx, wire, loc >>

\* the receiving application calls kiss_decode_crc32(rx, output, MaxBuf, ...)
DecodeCrc32 ==
    /\ phase = "received"
    /\ LET r == kiss_decode_crc32(rx, MaxBuf, NoOut)
       IN  /\ rx' = r.kiss
           /\ out' = r.out
           /\ hist' = [hist EXCEPT !.decRet = r.ret, !.dcrc = TRUE]
    /\ phase' = "decoded"
    /\ UNCHANGED << tx, wire, loc >>

\* s with the byte at position pos replaced by b
Replace(s, pos, b) == [s EXCEPT ![pos] = b]

\* the frame of a peer that lays a CRC32 frame out as kiss_encode_crc32 does:
\* kiss_encode of the payload Q under header H, then kiss_push_encode of the
\* four bytes crc, in a buffer of its own
PeerFrame(Q, H, crc) ==
    Frame(kiss_push_encode(kiss_encode(Fresh(MemSize, 0, 0), Q, H).kiss, crc).kiss)

\* A peer puts one CRC32 frame for payload P on the wire, the checksum being
\* the little-endian kiss_crc32 of P; on the way at most one payload byte is
\* changed to 0x43 after the checksum was computed.
PeerCrcFrame ==
    /\ phase = "idle"
    /\ \E P \in Payloads, H \in Headers, pos \in 0..MaxLen :
          /\ Len(P) > 0
          /\ pos <= Len(P)
          /\ LET f == PeerFrame(IF pos = 0 THEN P ELSE Replace(P, pos, 67), H, kiss_crc32(P))
             IN  /\ Len(f) <= MemSize
                 /\ wire' = f
                 /\ hist' = [hist EXCEPT !.P = P, !.A = P, !.H = H, !.crc = TRUE,
                                         !.peer = TRUE, !.sent = f,
                                         !.flip = IF pos = 0 THEN << >> ELSE << pos, 67 >>]
    /\ phase' = "sent"
    /\ UNCHANGED << tx, rx, loc, out >>

Next ==
    \/ Encode
    \/ EncodeCrc32
    \/ PushEncode
    \/ SendFrame
    \/ ReceiveFrame
    \/ ReadAttempt
    \/ Decode
    \/ DecodeCrc32
    \/ PeerCrcFrame

Spec == Init /\ [][Next]_vars

(* ======================================================================= *)
(* The assembler alone: one receiver whose read callback hands over a byte *)
(* stream (noise, FEND padding, one frame) in pieces of its own choosing.  *)
(* ======================================================================= *)
\* payloads of the frames the assembler is fed; it does not interpret escapes
AsmPayloads == SeqsUpTo({65}, MaxLen)
\* bytes ahead of the first FEND
AsmNoise == {<< >>, << 65 >>}

\* the read callback was not called yet
NoReads == [reads |-> 0, readErr |-> FALSE]

\* the frame kiss_encode makes of P under header 0
AsmFrame(P) == Frame(kiss_encode(Fresh(MemSize, 0, 0), P, 0).kiss)

InitAsm ==
    /\ \E bs \in 3..MaxBuf, fill \in FillBytes :
          /\ rx = Fresh(bs, 0, fill)
          /\ tx = Fresh(bs, 0, fill)
          /\ \E noise \in AsmNoise, pad \in 0..MaxPad, P \in AsmPayloads :
                /\ wire = noise \o PaddingBlock(pad) \o AsmFrame(P)
                /\ hist = [NoHist EXCEPT !.P = P, !.A = noise, !.H = 0, !.peer = TRUE,
                                         !.sent = AsmFrame(P)] @@ NoReads
    /\ phase = "sent"
    /\ loc = ReceiveLocals(0)
    /\ out = NoOut

\* the read callback hands over the next n bytes of the stream, n of its own
\* choosing from 0 to max_length, and returns 0.  Undefined behaviour as in
\* ReadAttempt.
AsmRead ==
    /\ phase = "receiving"
    /\ \E n \in 0..rx.buffer_size :
          /\ n <= Len(wire)
          /\ LET cb == [err |-> KISS_OK, read |-> TRUE, data |-> SubSeq(wire, 1, n)]
                 r == ReceiveAttempt(rx, loc, cb)
             IN  /\ wire' = SubSeq(wire, n + 1, Len(wire))
                 /\ rx' = r.kiss
                 /\ loc' = r.loc
                 /\ \/ /\ hist' = [hist EXCEPT !.rcvRet = r.ret, !.reads = @ + 1]
                       /\ phase' = IF r.ret = UNSET THEN "receiving" ELSE "received"
                    \/ /\ r.loc.oob
                       /\ hist' = [hist EXCEPT !.reads = @ + 1]
                       /\ phase' = "crashed"
    /\ UNCHANGED << tx, out >>

\* the read callback fails: it returns KISS_ERR_NO_DATA_RECEIVED and leaves
\* *read as it found it
AsmReadError ==
    /\ phase = "receiving"
    /\ LET cb == [err |-> KISS_ERR_NO_DATA_RECEIVED, read |-> FALSE, data |-> << >>]
           r == ReceiveAttempt(rx, loc, cb)
       IN  /\ rx' = r.kiss
           /\ loc' = r.loc
           /\ hist' = [hist EXCEPT !.rcvRet = r.ret, !.reads = @ + 1, !.readErr = TRUE]
           /\ phase' = "received"
    /\ UNCHANGED << tx, wire, out >>

NextAsm ==
    \/ ReceiveFrame
    \/ AsmRead
    \/ AsmReadError

SpecAsm == InitAsm /\ [][NextAsm]_vars

\* the loop of kiss_receive_frame goes on while it has a step to take, and
\* the read callback returns
\* the streams of InitAsm with at most one FEND of padding, received into
\* the smallest and the largest buffer
InitAsmFair ==
    /\ InitAsm
    /\ rx.buffer_size \in {3, MaxBuf}
    /\ Len(wire) <= Len(hist.A) + 1 + Len(hist.sent)

SpecAsmFair == InitAsmFair /\ [][NextAsm]_vars /\ WF_vars(NextAsm)

(* ======================================================================= *)
(* What the claims are measured against: the wire format as the KISS       *)
(* framing rules state it, computed without the instance.                  *)
(* ======================================================================= *)
\* the bytes that stand for b inside a frame
Stuff(b) ==
    IF b = 192 THEN << 219, 220 >> ELSE IF b = 219 THEN << 219, 221 >> ELSE << b >>

RECURSIVE StuffSeq(_)
StuffSeq(s) == IF s = << >> THEN << >> ELSE Stuff(Head(s)) \o StuffSeq(Tail(s))

\* FEND, stuffed header, stuffed payload, FEND
WireFrame(P, H) == << 192 >> \o Stuff(H) \o StuffSeq(P) \o << 192 >>

\* a plain kiss_encode has returned and nothing was pushed after it
PlainEncoded == phase # "idle" /\ ~hist.crc /\ ~hist.pushed /\ ~hist.peer

\* the receiver's variables hold exactly payload P and header H
Delivered(P, H) ==
    /\ out.output_length = Len(P)
    /\ SubSeq(out.output, 1, Len(P)) = P
    /\ out.header = H

(* ======================================================================= *)
(* The link without CRC32 over a transport that flips one bit of one       *)
(* payload byte of the frame on its way.                                   *)
(* ======================================================================= *)
\* payload bytes one bit away from 0xC0 (0x40) and from 0xDB (0x5B), one that
\* is not (0x41), and one that is stuffed (0xC0)
FlipBytes == {64, 65, 91, KISS_FEND}
FlipHeaders == {0, KISS_FESC}

InitFlip ==
    /\ tx = Fresh(MaxBuf, 0, 0)
    /\ rx = Fresh(MaxBuf, 0, 0)
    /\ wire = << >>
    /\ phase = "idle"
    /\ loc = ReceiveLocals(0)
    /\ out = NoOut
    /\ hist = NoHist

\* the application calls kiss_encode(tx, P, Len(P), H)
EncodeFlip ==
    /\ phase = "idle"
    /\ \E P \in SeqsUpTo(FlipBytes, MaxLen), H \in FlipHeaders :
          LET r == kiss_encode(tx, P, H)
          IN  /\ tx' = r.kiss
              /\ hist' = [hist EXCEPT !.P = P, !.A = P, !.H = H, !.encRet = r.ret]
    /\ phase' = "encoded"
    /\ UNCHANGED << rx, wire, loc, out >>

RECURSIVE Pow2(_)
Pow2(k) == IF k = 0 THEN 1 ELSE 2 * Pow2(k - 1)

\* the transport flips bit k of the byte at position i of the frame, i in the
\* stuffed payload: after the opening FEND and the stuffed header, before the
\* closing FEND
FlipBit ==
    /\ phase = "sent"
    /\ hist.sendRet = KISS_OK
    /\ hist.flip = << >>
    /\ \E i \in (2 + Len(Stuff(hist.H)))..(Len(wire) - 1), k \in 0..7 :
          LET b == Xor(wire[i], Pow2(k))
          IN  /\ wire' = Replace(wire, i, b)
              /\ hist' = [hist EXCEPT !.flip = << i, b >>]
    /\ UNCHANGED << tx, rx, phase, loc, out >>

NextFlip ==
    \/ EncodeFlip
    \/ SendFrame
    \/ FlipBit
    \/ ReceiveFrame
    \/ ReadAttempt
    \/ Decode

SpecFlip == InitFlip /\ [][NextFlip]_vars

RECURSIVE Unstuff(_)
\* the bytes that the stuffed bytes s stand for; ok is FALSE when a 0xDB in s
\* is not followed by 0xDC or 0xDD
Unstuff(s) ==
    IF s = << >> THEN [ok |-> TRUE, bytes |-> << >>]
    ELSE IF Head(s) = 219
    THEN IF Len(s) >= 2 /\ s[2] \in {220, 221}
         THEN LET r == Unstuff(SubSeq(s, 3, Len(s)))
              IN  [ok |-> r.ok, bytes |-> << IF s[2] = 220 THEN 192 ELSE 219 >> \o r.bytes]
         ELSE [ok |-> FALSE, bytes |-> << >>]
    ELSE LET r == Unstuff(Tail(s))
         IN  [ok |-> r.ok, bytes |-> << Head(s) >> \o r.bytes]

RECURSIVE UpToFend(_)
\* s up to its first 0xC0, the 0xC0 left out
UpToFend(s) == IF s = << >> \/ Head(s) = 192 THEN << >> ELSE << Head(s) >> \o UpToFend(Tail(s))

\* the frame on the wire after the flip
Flipped == Replace(hist.sent, hist.flip[1], hist.flip[2])

\* the flip hit a byte that was not part of an escape sequence and made it
\* neither 0xC0 nor 0xDB
PlainFlip ==
    /\ hist.sent[hist.flip[1]] \notin {219, 220, 221}
    /\ hist.flip[2] \notin {192, 219}

\* s and t have the same length and differ at exactly one position
OneByteApart(s, t) ==
    /\ Len(s) = Len(t)
    /\ Cardinality({ i \in 1..Len(s) : s[i] # t[i] }) = 1

\* a frame was flipped, received and decoded
FlipDecoded == phase = "decoded" /\ ~hist.dcrc /\ hist.flip # << >>

\* C9 as claimed: without CRC32, for every payload and every single-bit flip
\* of a payload byte of the frame on the wire, kiss_receive_frame followed by
\* kiss_decode still returns KISS_OK with the header unchanged.
C9_AsClaimed ==
    FlipDecoded =>
        /\ hist.rcvRet = KISS_OK
        /\ hist.decRet = KISS_OK
        /\ out.header = hist.H

\* C9 amended: without CRC32 a single-bit flip of a payload byte on the wire
\* is not detected as long as the altered bytes up to the first 0xC0 still
\* unstuff: kiss_receive_frame and kiss_decode return KISS_OK and deliver
\* the unchanged header and the unstuffing of the altered bytes, which is the
\* payload with one byte altered when the flipped byte was outside an escape
\* sequence and became neither 0xC0 nor 0xDB.  A flip that leaves a 0xDB not
\* followed by 0xDC or 0xDD is detected: kiss_decode returns
\* KISS_ERR_INVALID_FRAME.
C9_OptIn ==
    FlipDecoded =>
        LET u == Unstuff(UpToFend(Tail(Flipped)))
        IN  /\ hist.rcvRet = KISS_OK
            /\ IF u.ok
               THEN /\ hist.decRet = KISS_OK
                    /\ Delivered(Tail(u.bytes), hist.H)
               ELSE hist.decRet = KISS_ERR_INVALID_FRAME
            /\ PlainFlip =>
                  /\ hist.decRet = KISS_OK
                  /\ OneByteApart(SubSeq(out.output, 1, out.output_length), hist.P)

\* a flip of the second of two unstuffed payload bytes (0x41 to 0x43) under a
\* stuffed header, delivered unnoticed
C9_Witness ==
    /\ FlipDecoded /\ PlainFlip
    /\ hist.H = KISS_FESC /\ hist.P = << 64, 65 >>
    /\ hist.flip = << 5, 67 >>
    /\ hist.decRet = KISS_OK
    /\ Delivered(<< 64, 67 >>, KISS_FESC)

\* C3: after a successful kiss_encode(P,H) the buffer holds exactly FEND,
\* stuff(H), stuff(P[0]), ..., stuff(P[n-1]), FEND, index is that byte count
\* and status is Transmitting; {0x41,0x42} with header 0 in a 16-byte buffer
\* gives C0 00 41 42 C0 with index 5.
C3_WireFormat ==
    /\ (phase = "encoded" /\ PlainEncoded /\ hist.encRet = KISS_OK) =>
          /\ Frame(tx) = WireFrame(hist.P, hist.H)
          /\ tx.index = Len(WireFrame(hist.P, hist.H))
          /\ tx.Status = KISS_STATUS_TRANSMITTING
    /\ LET r == kiss_encode(Fresh(16, 0, 0), << 65, 66 >>, 0)
       IN  /\ r.ret = KISS_OK
           /\ Frame(r.kiss) = << 192, 0, 65, 66, 192 >>
           /\ r.kiss.index = 5
           /\ r.kiss.Status = KISS_STATUS_TRANSMITTING

\* a successful kiss_encode of a payload holding both 0xC0 and 0xDB under an
\* escaped header
C3_Witness ==
    /\ phase = "encoded" /\ PlainEncoded /\ hist.encRet = KISS_OK
    /\ hist.H = 192 /\ hist.P = << 219, 192 >>
    /\ tx.index = 8

\* 0xC0 occurs in f only first and last, and every 0xDB between them is
\* followed by 0xDC or 0xDD
WellEscaped(f) ==
    /\ Len(f) >= 2
    /\ \A i \in 1..Len(f) : f[i] = 192 <=> i \in {1, Len(f)}
    /\ \A i \in 2..(Len(f) - 1) : f[i] = 219 => f[i + 1] \in {220, 221}

\* C4: after any successful kiss_encode or kiss_push_encode, 0xC0 occurs in
\* buffer[0..index) only at position 0 and at position index-1, and every
\* 0xDB strictly between them is immediately followed by 0xDC or 0xDD.
C4_Escaping ==
    (phase = "encoded" /\ ~hist.crc /\ hist.encRet = KISS_OK
       /\ (hist.pushed => hist.pushRet = KISS_OK)) => WellEscaped(Frame(tx))

\* a successful kiss_push_encode of 0xC0 after an encode of 0xDB under header 0xDB
C4_Witness ==
    /\ phase = "encoded" /\ ~hist.crc /\ hist.encRet = KISS_OK
    /\ hist.pushed /\ hist.pushRet = KISS_OK
    /\ hist.H = 219 /\ hist.A = << 219 >> /\ hist.P = << 219, 192 >>

\* C10 as claimed: kiss_encode of len bytes into a buffer smaller than
\* 3 + 2*len returns KISS_ERR_BUFFER_OVERFLOW and sets ErrorState.
C10_AsClaimed ==
    (phase = "encoded" /\ PlainEncoded /\ tx.buffer_size < 3 + 2 * Len(hist.P)) =>
        /\ hist.encRet = KISS_ERR_BUFFER_OVERFLOW
        /\ tx.Status = KISS_STATUS_ERROR_STATE

\* C10 amended: kiss_encode into a buffer smaller than the stuffed frame
\* (2 delimiters, the stuffed header, the stuffed payload) returns
\* KISS_ERR_BUFFER_OVERFLOW and sets ErrorState with index <= buffer_size; a
\* buffer that holds the stuffed frame is never refused, however far below
\* 3 + 2*len it is.
C10_Overflow ==
    (phase = "encoded" /\ PlainEncoded) =>
        IF tx.buffer_size < Len(WireFrame(hist.P, hist.H))
        THEN /\ hist.encRet = KISS_ERR_BUFFER_OVERFLOW
             /\ tx.Status = KISS_STATUS_ERROR_STATE
             /\ tx.index <= tx.buffer_size
        ELSE hist.encRet = KISS_OK

\* an encode refused for one byte: the stuffed frame is buffer_size + 1 long
C10_Witness ==
    /\ phase = "encoded" /\ PlainEncoded
    /\ Len(hist.P) = 2
    /\ Len(WireFrame(hist.P, hist.H)) = tx.buffer_size + 1
    /\ hist.encRet = KISS_ERR_BUFFER_OVERFLOW

\* 1 when the header takes two bytes on the wire, 0 when one
HeaderEscape(H) == IF H \in {192, 219} THEN 1 ELSE 0

\* the round trip of a plain kiss_encode went through: every call returned
\* KISS_OK and the receiver holds P and H
RoundTripOK ==
    /\ hist.encRet = KISS_OK
    /\ phase # "crashed"
    /\ phase \in {"sent", "receiving", "received", "decoded"} => hist.sendRet = KISS_OK
    /\ phase \in {"received", "decoded"} => hist.rcvRet = KISS_OK
    /\ (phase = "decoded" /\ ~hist.dcrc) =>
          /\ hist.decRet = KISS_OK
          /\ Delivered(hist.P, hist.H)

CrcFrameFits(P, H, n) ==
    Len(WireFrame(P \o kiss_crc32(P), H)) <= n

\* C2: for every header H and every non-empty payload P that fits the buffer,
\* kiss_encode_crc32(P,H) returns KISS_OK leaving status Transmitting, and
\* after kiss_send_frame and the peer's kiss_receive_frame, kiss_decode_crc32
\* returns KISS_OK with exactly P (the CRC bytes stripped) and H, leaving
\* status Received.
C2_RoundTripCrc ==
    (/\ phase # "idle" /\ hist.crc /\ ~hist.peer /\ ~hist.pushed
     /\ Len(hist.P) > 0
     /\ CrcFrameFits(hist.P, hist.H, tx.buffer_size)) =>
        /\ hist.encRet = KISS_OK
        /\ phase = "encoded" => tx.Status = KISS_STATUS_TRANSMITTING
        /\ (phase = "decoded" /\ hist.dcrc) =>
              /\ hist.decRet = KISS_OK
              /\ Delivered(hist.P, hist.H)
              /\ rx.Status = KISS_STATUS_RECEIVED

\* C8: with CRC32 in use, when a received frame carries a payload in which one
\* byte was changed after the CRC was computed, kiss_decode_crc32 called in
\* status Received returns KISS_ERR_CRC32_MISMATCH and leaves ReceivedError.
C8_CrcEnforced ==
    (/\ phase = "decoded" /\ hist.dcrc /\ hist.peer
     /\ hist.flip # << >>
     /\ hist.rcvRet = KISS_OK) =>
        /\ hist.decRet = KISS_ERR_CRC32_MISMATCH
        /\ rx.Status = KISS_STATUS_RECEIVED_ERROR

\* what kiss_receive_frame and kiss_decode give for the frame F alone, read in
\* one call into a fresh buffer of buffer_size bytes
Alone(F, buffer_size) ==
    LET b == ReceiveBegin(Fresh(buffer_size, 0, 0), 1)
        a == ReceiveAttempt(b.kiss, ReceiveLocals(1), [err |-> KISS_OK, read |-> TRUE, data |-> F])
        d == kiss_decode(a.kiss, MaxBuf, NoOut)
    IN  [rcvRet |-> a.ret, decRet |-> d.ret, out |-> d.out]

\* C6: for every N >= 1 and every valid encoded frame F, when the transport
\* delivers N leading 0xC0 bytes followed by F (kiss_send_frame with padding
\* N), kiss_receive_frame returns KISS_OK and kiss_decode returns the same
\* header and payload as for F alone.
C6_PaddingTolerance ==
    (/\ phase \in {"received", "decoded", "crashed"}
     /\ ~hist.crc /\ hist.encRet = KISS_OK /\ (hist.pushed => hist.pushRet = KISS_OK)
     /\ hist.sendRet = KISS_OK
     /\ tx.padding >= 1) =>
        /\ phase # "crashed"
        /\ hist.rcvRet = KISS_OK
        /\ (phase = "decoded" /\ ~hist.dcrc) =>
              /\ hist.decRet = KISS_OK
              /\ out = Alone(hist.sent, rx.buffer_size).out

\* C5: in every state reached through kiss_receive_frame with a read callback
\* that hands over at most max_length bytes per call, index <= buffer_size,
\* also between read attempts and after a return with an error; stated for
\* the behaviours in which no access has left the buffer.
C5_LengthBound ==
    ~loc.oob => (rx.index <= rx.buffer_size /\ tx.index <= tx.buffer_size)

\* C7: for a stream of optional noise, optional FEND padding and one valid
\* frame that fits the buffer, the frame left in buffer[0..index) when
\* kiss_receive_frame returns KISS_OK is that frame, however the read callback
\* splits the stream across its calls; stated for the behaviours in which no
\* access has left the buffer.
C7_SplitIndependent ==
    (/\ phase = "received" /\ hist.rcvRet = KISS_OK /\ ~loc.oob
     /\ Len(hist.sent) <= rx.buffer_size) => Frame(rx) = hist.sent

(* ======================================================================= *)
(* A sender with a buffer that holds every CRC32 frame of the payloads:    *)
(* kiss_encode_crc32, kiss_push_encode, kiss_send_frame.                   *)
(* ======================================================================= *)
InitCrcPush ==
    /\ tx = Fresh(MemSize, 0, 0)
    /\ rx = Fresh(MemSize, 0, 0)
    /\ wire = << >>
    /\ phase = "idle"
    /\ loc = ReceiveLocals(0)
    /\ out = NoOut
    /\ hist = NoHist

NextCrcPush ==
    \/ EncodeCrc32
    \/ PushEncode
    \/ SendFrame

SpecCrcPush == InitCrcPush /\ [][NextCrcPush]_vars

(* ======================================================================= *)
(* One instance driven by an application that makes up to MaxCalls calls   *)
(* in any order, whatever the previous ones returned.  hist holds the last *)
(* call: its name, the instance and the caller's variables before it, its *)
(* arguments, its result and what it handed to the write callback.         *)
(* ======================================================================= *)
\* calls the application makes in one behaviour
MaxCalls == 3
\* what a failing write callback returns
WriteFailed == 1000

\* payloads of the encodes: plain, stuffed, and one whose frame a small
\* buffer does not hold
ApiPayloads == {<< 65 >>, << KISS_FEND >>, << 65, KISS_FEND >>}
ApiHeaders == {0, KISS_FESC}
\* data of the kiss_push_encode calls
ApiPushes == {<< 65 >>, << KISS_FEND >>}
\* the results of the write callback at its first and second call
WriteResults == {<< KISS_OK, KISS_OK >>, << WriteFailed, KISS_OK >>, << KISS_OK, WriteFailed >>}
\* what arrives for a kiss_receive_frame: nothing, a frame with an invalid
\* escape sequence, or a frame kiss_encode makes
ApiStreams ==
    {<< >>, << 192, 0, 219, 65, 192 >>,
     Frame(kiss_encode(Fresh(MemSize, 0, 0), << 65 >>, 0).kiss),
     Frame(kiss_encode(Fresh(MemSize, 0, 0), << 65, KISS_FEND >>, KISS_FESC).kiss)}
\* output_max_size of the decodes
ApiCapacities == {0, 1, MaxBuf}

ApiCall(op, data, header, ret, writes) ==
    [op |-> op, pre |-> tx, preOut |-> out, data |-> data, header |-> header, ret |-> ret,
     writes |-> writes, calls |-> hist.calls + 1]

InitApi ==
    /\ \E bs \in {MaxBuf - 4, MaxBuf}, pad \in {0, 1} : tx = Fresh(bs, pad, 0)
    /\ rx = Fresh(MaxBuf, 0, 0)
    /\ wire = << >>
    /\ phase = "api"
    /\ loc = ReceiveLocals(0)
    /\ out = NoOut
    /\ hist = [op |-> "kiss_init", pre |-> tx, preOut |-> NoOut, data |-> << >>, header |-> 0,
               ret |-> KISS_OK, writes |-> << >>, calls |-> 0]

\* kiss_encode(tx, P, Len(P), H)
ApiEncode ==
    /\ hist.calls < MaxCalls
    /\ \E P \in ApiPayloads, H \in ApiHeaders :
          LET r == kiss_encode(tx, P, H)
          IN  /\ tx' = r.kiss
              /\ hist' = ApiCall("kiss_encode", P, H, r.ret, << >>)
    /\ UNCHANGED << rx, wire, phase, loc, out >>

\* kiss_push_encode(tx, B, Len(B))
ApiPushEncode ==
    /\ hist.calls < MaxCalls
    /\ \E B \in ApiPushes :
          LET r == kiss_push_encode(tx, B)
          IN  /\ tx' = r.kiss
              /\ hist' = ApiCall("kiss_push_encode", B, 0, r.ret, << >>)
    /\ UNCHANGED << rx, wire, phase, loc, out >>

\* kiss_send_frame(tx), the write callback returning werr[1], werr[2]
ApiSendFrame ==
    /\ hist.calls < MaxCalls
    /\ \E werr \in WriteResults :
          LET r == kiss_send_frame(tx, werr)
          IN  /\ tx' = r.kiss
              /\ hist' = ApiCall("kiss_send_frame", werr, 0, r.ret, r.writes)
    /\ UNCHANGED << rx, wire, phase, loc, out >>

\* kiss_receive_frame(tx, MaxAttempts): the first read hands over a stream
\* that the buffer holds, or fails; the reads after it find nothing
ApiReceiveFrame ==
    /\ hist.calls < MaxCalls
    /\ \E stream \in ApiStreams, err \in {KISS_OK, KISS_ERR_NO_DATA_RECEIVED} :
          /\ Len(stream) <= tx.buffer_size
          /\ err # KISS_OK => stream = << >>
          /\ LET cb == [err |-> err, read |-> err = KISS_OK, data |-> stream]
                 r == kiss_receive_frame(tx, MaxAttempts, << cb >>)
             IN  /\ tx' = r.kiss
                 /\ hist' = ApiCall("kiss_receive_frame", stream, err, r.ret, << >>)
    /\ UNCHANGED << rx, wire, phase, loc, out >>

\* kiss_decode(tx, output, cap, &output_length, &header)
ApiDecode ==
    /\ hist.calls < MaxCalls
    /\ \E cap \in ApiCapacities :
          LET r == kiss_decode(tx, cap, out)
          IN  /\ tx' = r.kiss
              /\ out' = r.out
              /\ hist' = ApiCall("kiss_decode", << >>, cap, r.ret, << >>)
    /\ UNCHANGED << rx, wire, phase, loc >>

NextApi ==
    \/ ApiEncode
    \/ ApiPushEncode
    \/ ApiSendFrame
    \/ ApiReceiveFrame
    \/ ApiDecode

SpecApi == InitApi /\ [][NextApi]_vars

\* C11: for all byte strings A and B (B non-empty) and every header H that
\* fit the buffer, the buffer contents and index after
\* kiss_encode_crc32(A||B, H) are those after kiss_encode_crc32(A, H)
\* followed by kiss_push_encode(B).
C11_IncrementalCrc ==
    (/\ phase = "encoded" /\ hist.crc /\ hist.pushed /\ ~hist.peer
     /\ Len(hist.A) > 0
     /\ CrcFrameFits(hist.P, hist.H, tx.buffer_size)) =>
        LET whole == kiss_encode_crc32(Fresh(tx.buffer_size, tx.padding, 0), hist.P, hist.H).kiss
        IN  /\ tx.index = whole.index
            /\ Frame(tx) = Frame(whole)

\* The results of the write callback calls that kiss_send_frame made
WritesMade == SubSeq(hist.data, 1, Len(hist.writes))

\* C12: kiss_send_frame called in a status other than Transmitting returns
\* KISS_ERR_DATA_NOT_ENCODED, hands nothing to the write callback and leaves
\* status, index and buffer as they were; called in Transmitting it calls
\* the write callback and ends in Transmitted with KISS_OK when every call
\* returned 0, and in ErrorState with the callback's code otherwise.
C12_SendGating ==
    hist.op = "kiss_send_frame" =>
        IF hist.pre.Status # KISS_STATUS_TRANSMITTING
        THEN /\ hist.ret = KISS_ERR_DATA_NOT_ENCODED
             /\ hist.writes = << >>
             /\ tx = hist.pre
        ELSE /\ Len(hist.writes) >= 1
             /\ tx.index = hist.pre.index
             /\ tx.buffer = hist.pre.buffer
             /\ IF \A i \in 1..Len(WritesMade) : WritesMade[i] = 0
                THEN hist.ret = KISS_OK /\ tx.Status = KISS_STATUS_TRANSMITTED
                ELSE /\ tx.Status = KISS_STATUS_ERROR_STATE
                     /\ hist.ret # KISS_OK
                     /\ hist.ret = WritesMade[Len(WritesMade)]

\* a second kiss_send_frame right after a successful one is refused
C12_Witness ==
    /\ hist.op = "kiss_send_frame"
    /\ hist.pre.Status = KISS_STATUS_TRANSMITTED
    /\ hist.pre.index > 0
    /\ hist.ret = KISS_ERR_DATA_NOT_ENCODED

\* C13: kiss_decode called in a status other than Received returns
\* KISS_ERR_STATUS, writes neither output, output_length nor header, and
\* leaves status, index and buffer as they were.
C13_DecodeGating ==
    (hist.op = "kiss_decode" /\ hist.pre.Status # KISS_STATUS_RECEIVED) =>
        /\ hist.ret = KISS_ERR_STATUS
        /\ out = hist.preOut
        /\ tx = hist.pre

\* kiss_decode refused after an earlier kiss_decode wrote the caller's header
\* and left the instance in the error state, with a frame still in the buffer
C13_Witness ==
    /\ hist.op = "kiss_decode"
    /\ hist.pre.Status = KISS_STATUS_ERROR_STATE
    /\ hist.pre.index >= 3
    /\ hist.preOut.header # UNSET
    /\ hist.ret = KISS_ERR_STATUS

\* C14: a kiss_decode that ran on a received frame leaves the status
\* ReceivedError when its result is not KISS_OK and Received when it is.
C14_DecodeOutcome ==
    (hist.op = "kiss_decode" /\ hist.pre.Status = KISS_STATUS_RECEIVED) =>
        IF hist.ret = KISS_OK
        THEN tx.Status = KISS_STATUS_RECEIVED
        ELSE tx.Status = KISS_STATUS_RECEIVED_ERROR

\* C17: in whatever status and with whatever buffer contents earlier calls
\* left the instance, a kiss_encode of a payload whose frame fits returns
\* KISS_OK with status Transmitting and the frame of that payload alone in
\* buffer[0..index), and a kiss_receive_frame that is handed a valid frame
\* returns KISS_OK with status Received and that frame in buffer[0..index).
C17_Recovery ==
    /\ (/\ hist.op = "kiss_encode"
        /\ Len(WireFrame(hist.data, hist.header)) <= hist.pre.buffer_size) =>
           /\ hist.ret = KISS_OK
           /\ tx.Status = KISS_STATUS_TRANSMITTING
           /\ Frame(tx) = WireFrame(hist.data, hist.header)
    /\ (/\ hist.op = "kiss_receive_frame"
        /\ hist.header = KISS_OK
        /\ Len(hist.data) >= 3
        /\ WellEscaped(hist.data)) =>
           /\ hist.ret = KISS_OK
           /\ tx.Status = KISS_STATUS_RECEIVED
           /\ Frame(tx) = hist.data

\* a frame received into an instance that a failed operation left in the
\* error state with a longer frame in its buffer
C17_Witness ==
    /\ hist.op = "kiss_receive_frame"
    /\ hist.pre.Status = KISS_STATUS_ERROR_STATE
    /\ hist.pre.index > Len(hist.data)
    /\ Len(hist.data) >= 3
    /\ tx.Status = KISS_STATUS_RECEIVED

\* C18 as stated: kiss_push_encode called in any status other than
\* Transmitting returns KISS_ERR_INVALID_PARAMS and leaves buffer, index and
\* status unchanged.
C18_AsClaimed ==
    (hist.op = "kiss_push_encode" /\ hist.pre.Status # KISS_STATUS_TRANSMITTING) =>
        /\ hist.ret = KISS_ERR_INVALID_PARAMS
        /\ tx = hist.pre

\* C18: kiss_push_encode called in a status other than Transmitting leaves
\* buffer, index and status unchanged; it returns KISS_ERR_STATUS when the
\* status is ErrorState and KISS_ERR_INVALID_PARAMS in the other statuses.
C18_PushMisuse ==
    (hist.op = "kiss_push_encode" /\ hist.pre.Status # KISS_STATUS_TRANSMITTING) =>
        /\ tx = hist.pre
        /\ hist.ret = IF hist.pre.Status = KISS_STATUS_ERROR_STATE
                      THEN KISS_ERR_STATUS
                      ELSE KISS_ERR_INVALID_PARAMS

\* kiss_push_encode refused in the error state that a failed write left
C18_Witness ==
    /\ hist.op = "kiss_push_encode"
    /\ hist.pre.Status = KISS_STATUS_ERROR_STATE
    /\ hist.pre.index > 0
    /\ hist.ret = KISS_ERR_STATUS

\* kiss_receive_frame is in its attempt loop
Receiving == phase = "receiving"

\* what holds of the read callback calls of one kiss_receive_frame
BoundedReads ==
    /\ hist.reads <= MaxAttempts
    /\ Receiving => (hist.reads < MaxAttempts /\ ~hist.readErr /\ hist.rcvRet = UNSET)
    /\ (Receiving /\ ~loc.oob /\ Len(hist.sent) <= rx.buffer_size) => wire # << >>
    /\ (phase = "received" /\ hist.readErr) => hist.rcvRet = KISS_ERR_NO_DATA_RECEIVED
    /\ (phase = "received" /\ ~hist.readErr /\ hist.rcvRet = KISS_ERR_NO_DATA_RECEIVED) =>
           hist.reads = MaxAttempts

C16_AccumulationOverflow ==
    Len(hist.sent) > rx.buffer_size =>
        /\ ~loc.oob
        /\ (/\ phase = "received" /\ ~hist.readErr
            /\ hist.rcvRet # KISS_ERR_NO_DATA_RECEIVED) =>
               /\ hist.rcvRet = KISS_ERR_BUFFER_OVERFLOW
               /\ rx.Status = KISS_STATUS_RECEIVED_ERROR

(* ======================================================================= *)
(* The parameter calls: kiss_set_param and kiss_request_param on one       *)
(* instance, in any order, with write callbacks that may fail and a peer   *)
(* that answers a request, answers under another header or stays silent.   *)
(* ======================================================================= *)
\* parameter calls made on one instance
MaxParamCalls == 2

ParamIds == {1, 2, 219 * 256 + 192}
ParamValues == {<< >>, << 5 >>, << KISS_FEND >>, << 5, KISS_FESC >>}
ParamAnswers ==
    {<< >>,
     << 192, KISS_HEADER_REQUEST_PARAM, 1, 0, 7, 192 >>,
     << 192, KISS_HEADER_SET_PARAM, 1, 0, 7, 192 >>}

ParamCall(op, ID, value, werr, r, received) ==
    [op |-> op, pre |-> tx, ID |-> ID, value |-> value, werr |-> werr, ret |-> r.ret,
     writes |-> r.writes, received |-> received, calls |-> hist.calls + 1]

InitParam ==
    /\ \E bs \in {5, MaxBuf - 1, MaxBuf}, pad \in {0, 1} : tx = Fresh(bs, pad, 0)
    /\ rx = Fresh(MaxBuf, 0, 0)
    /\ wire = << >>
    /\ phase = "api"
    /\ loc = ReceiveLocals(0)
    /\ out = NoOut
    /\ hist = [op |-> "kiss_init", pre |-> tx, ID |-> 0, value |-> << >>,
               werr |-> << KISS_OK, KISS_OK >>, ret |-> KISS_OK, writes |-> << >>,
               received |-> FALSE, calls |-> 0]

\* kiss_set_param(tx, ID, value, Len(value))
SetParam ==
    /\ hist.calls < MaxParamCalls
    /\ \E ID \in ParamIds, value \in ParamValues, werr \in WriteResults :
          \E r \in {kiss_set_param(tx, ID, value, werr)} :
              /\ tx' = r.kiss
              /\ hist' = ParamCall("kiss_set_param", ID, value, werr, r, FALSE)
    /\ UNCHANGED << rx, wire, phase, loc, out >>

\* kiss_request_param(tx, ID, output, MaxBuf, &output_length, MaxAttempts,
\* KISS_HEADER_REQUEST_PARAM); the first read hands over the peer's answer,
\* the reads after it find nothing
RequestParam ==
    /\ hist.calls < MaxParamCalls
    /\ \E ID \in ParamIds, werr \in WriteResults, answer \in ParamAnswers :
          /\ Len(answer) <= tx.buffer_size
          /\ \E r \in {kiss_request_param(tx, ID, MaxBuf, out, MaxAttempts,
                                            KISS_HEADER_REQUEST_PARAM, werr,
                                            << [err |-> KISS_OK, read |-> TRUE,
                                                data |-> answer] >>)} :
                 /\ tx' = r.kiss
                 /\ out' = r.out
                 /\ hist' = ParamCall("kiss_request_param", ID, answer, werr, r, r.received)
    /\ UNCHANGED << rx, wire, phase, loc >>

NextParam ==
    \/ SetParam
    \/ RequestParam

SpecParam == InitParam /\ [][NextParam]_vars

\* the two bytes of a 16-bit ID, low byte first, stuffed
StuffedId == StuffSeq(<< hist.ID % 256, hist.ID \div 256 >>)

\* what the write callback is handed by a send of frame f from the instance
\* hist.pre when its calls return hist.werr: the padding block if there is
\* padding, and the frame unless the write of the padding failed
Handed(f) ==
    IF hist.pre.padding = 0 THEN << f >>
    ELSE IF hist.werr[1] # 0 THEN << PaddingBlock(hist.pre.padding) >>
    ELSE << PaddingBlock(hist.pre.padding), f >>

\* every write callback call of the last operation returned 0
AllWritten == \A i \in 1..Len(hist.writes) : hist.werr[i] = 0

\* C19: kiss_set_param(ID, value) with a non-empty value whose frame fits the
\* buffer hands the write callback FEND, 0x50, the stuffed low byte of ID,
\* the stuffed high byte of ID, the stuffed value, FEND (C0 50 02 00 05 C0
\* for ID 2 and value 05), and ends in Transmitted when the writes succeed.
C19_SetParamFrame ==
    LET f == << 192, 80 >> \o StuffedId \o StuffSeq(hist.value) \o << 192 >>
    IN  (/\ hist.op = "kiss_set_param"
         /\ Len(hist.value) > 0
         /\ Len(f) <= hist.pre.buffer_size) =>
            /\ hist.writes = Handed(f)
            /\ (hist.ID = 2 /\ hist.value = << 5 >>) => f = << 192, 80, 2, 0, 5, 192 >>
            /\ AllWritten => (hist.ret = KISS_OK /\ tx.Status = KISS_STATUS_TRANSMITTED)

\* an ID whose two bytes both need stuffing, set with success on an instance
\* that an earlier call left in the error state
C19_Witness ==
    /\ hist.op = "kiss_set_param"
    /\ hist.ID = 219 * 256 + 192
    /\ hist.value = << 5 >>
    /\ hist.pre.Status = KISS_STATUS_ERROR_STATE
    /\ hist.pre.padding = 0
    /\ hist.writes = << << 192, 80, 219, 220, 219, 221, 5, 192 >> >>
    /\ tx.Status = KISS_STATUS_TRANSMITTED

\* C20: kiss_request_param(ID) on a buffer that holds the frame hands the
\* write callback FEND, 0x40, the stuffed low byte of ID, the stuffed high
\* byte of ID, FEND (C0 40 01 00 C0 for ID 1).
C20_RequestParamFrame ==
    LET f == << 192, 64 >> \o StuffedId \o << 192 >>
    IN  (hist.op = "kiss_request_param" /\ Len(f) <= hist.pre.buffer_size) =>
            /\ hist.writes = Handed(f)
            /\ hist.ID = 1 => f = << 192, 64, 1, 0, 192 >>

\* the request for ID 1 written from a 5-byte buffer
C20_Witness ==
    /\ hist.op = "kiss_request_param"
    /\ hist.ID = 1
    /\ hist.pre.buffer_size = 5
    /\ hist.pre.padding = 0
    /\ hist.writes = << << 192, 64, 1, 0, 192 >> >>

\* C21: kiss_request_param encodes and sends the request and returns the
\* result of the send without calling the read callback; when the send
\* succeeds the status it leaves is Transmitted.
C21_RequestOnlySends ==
    (hist.op = "kiss_request_param" /\ Len(hist.writes) > 0) =>
        /\ ~hist.received
        /\ AllWritten => (hist.ret = KISS_OK /\ tx.Status = KISS_STATUS_TRANSMITTED)

(* ======================================================================= *)
(* The receiving side of the parameter frames: kiss_receive_frame of a     *)
(* frame that a peer built, then kiss_extract_param into the caller's ID,  *)
(* param array and param_length.                                           *)
(* ======================================================================= *)
\* the cells of the caller's param array and of the memory that follows it
ParamMem == MaxLen + 2
\* max_param_size
ExtractCaps == {0, 1, MaxLen}
ExtractHeaders == {KISS_HEADER_SET_PARAM, KISS_HEADER_REQUEST_PARAM, 0}
ExtractPayloads ==
    {<< >>, << 2 >>, << 2, 0 >>, << 2, 1, 5 >>, << KISS_FEND, KISS_FESC, 5, 6 >>,
     << 1, 0, 5, 6, 7 >>}
\* the frame kiss_encode makes of P under header H
PeerParamFrame(P, H) == Frame(kiss_encode(Fresh(MemSize, 0, 0), P, H).kiss)
\* a frame with an escape that is none
BadEscapeFrame == << 192, KISS_HEADER_SET_PARAM, 219, 65, 0, 192 >>

InitExtract ==
    /\ tx = Fresh(MemSize, 0, 0)
    /\ rx = Fresh(MemSize, 0, 0)
    /\ wire = << >>
    /\ phase = "api"
    /\ loc = ReceiveLocals(0)
    /\ out = NoParam(ParamMem)
    /\ hist = [op |-> "kiss_init", pre |-> tx, preOut |-> out, data |-> << >>, header |-> 0,
               ret |-> KISS_OK, writes |-> << >>, calls |-> 0]

\* kiss_receive_frame(tx, MaxAttempts): the first read hands over a frame
ExtractReceive ==
    /\ hist.calls < MaxCalls
    /\ \E stream \in {PeerParamFrame(P, H) : P \in ExtractPayloads, H \in ExtractHeaders}
                         \cup {BadEscapeFrame} :
          LET cb == [err |-> KISS_OK, read |-> TRUE, data |-> stream]
              r == kiss_receive_frame(tx, MaxAttempts, << cb >>)
          IN  /\ tx' = r.kiss
              /\ hist' = ApiCall("kiss_receive_frame", stream, 0, r.ret, << >>)
    /\ UNCHANGED << rx, wire, phase, loc, out >>

\* kiss_extract_param(tx, &ID, param, cap, &param_length)
ExtractParam ==
    /\ hist.calls < MaxCalls
    /\ \E cap \in ExtractCaps :
          LET r == kiss_extract_param(tx, cap, out)
          IN  /\ tx' = r.kiss
              /\ out' = r.res
              /\ hist' = ApiCall("kiss_extract_param", << >>, cap, r.ret, << >>)
    /\ UNCHANGED << rx, wire, phase, loc >>

NextExtract ==
    \/ ExtractReceive
    \/ ExtractParam

SpecExtract == InitExtract /\ [][NextExtract]_vars

\* the header byte of a well-formed frame f and its payload, unstuffed
HeaderOf(f) == Unstuff(SubSeq(f, 2, Len(f) - 1)).bytes[1]
PayloadOf(f) == Tail(Unstuff(SubSeq(f, 2, Len(f) - 1)).bytes)
\* the frame in the buffer before the last call
HeldFrame == Frame(hist.pre)
\* the smaller of two numbers
Min(a, b) == IF a < b THEN a ELSE b

\* C22: kiss_extract_param on a received frame with header 0x50 or 0x40 and
\* a decoded payload p of n >= 2 bytes returns KISS_OK with ID = p[0] +
\* 256*p[1], copies the first min(n-2, max_param_size) bytes of p[2..] into
\* param, writes nothing beyond them, sets param_length to that count and
\* leaves the status Received.
C22_ExtractResult ==
    (/\ hist.op = "kiss_extract_param"
     /\ hist.pre.Status = KISS_STATUS_RECEIVED
     /\ Len(HeldFrame) >= 3 /\ WellEscaped(HeldFrame)
     /\ HeaderOf(HeldFrame) \in {80, 64}
     /\ Len(PayloadOf(HeldFrame)) >= 2) =>
        LET p == PayloadOf(HeldFrame)
            k == Min(Len(p) - 2, hist.header)
        IN  /\ hist.ret = KISS_OK
            /\ out.ID = p[1] + 256 * p[2]
            /\ out.param_length = k
            /\ \A i \in 1..ParamMem :
                  out.param[i] = IF i <= k THEN p[2 + i] ELSE hist.preOut.param[i]
            /\ tx.Status = KISS_STATUS_RECEIVED

\* C23: kiss_extract_param returns KISS_ERR_INVALID_FRAME and writes neither
\* ID nor param nor param_length when the header of the received frame is
\* neither 0x50 nor 0x40 or its decoded payload has fewer than 2 bytes; when
\* the status is not Received it returns KISS_ERR_NO_DATA_RECEIVED, writes
\* nothing and leaves the instance as it was.
C23_ExtractRejection ==
    /\ (/\ hist.op = "kiss_extract_param"
        /\ hist.pre.Status = KISS_STATUS_RECEIVED
        /\ Len(HeldFrame) >= 3 /\ WellEscaped(HeldFrame)
        /\ \/ HeaderOf(HeldFrame) \notin {80, 64}
           \/ Len(PayloadOf(HeldFrame)) < 2) =>
           /\ hist.ret = KISS_ERR_INVALID_FRAME
           /\ out = hist.preOut
    /\ (hist.op = "kiss_extract_param" /\ hist.pre.Status # KISS_STATUS_RECEIVED) =>
           /\ hist.ret = KISS_ERR_NO_DATA_RECEIVED
           /\ out = hist.preOut
           /\ tx = hist.pre

\* a data frame with an ID and a value in its payload, refused
C23_Witness ==
    /\ hist.op = "kiss_extract_param"
    /\ hist.pre.Status = KISS_STATUS_RECEIVED
    /\ HeldFrame = << 192, 0, 2, 1, 5, 192 >>
    /\ hist.header > 0
    /\ hist.ret = KISS_ERR_INVALID_FRAME
    /\ tx.Status = KISS_STATUS_RECEIVED

(* ======================================================================= *)
(* kiss_init with good and bad arguments on an instance in use,            *)
(* kiss_set_TXdelay and the API calls, in any order.                       *)
(* ======================================================================= *)
\* kiss_init: buffer_size, padding and tx_delay
InitSizes == {0, 2, 3, 4, MaxBuf}
InitPaddings == {0, KISS_MAX_PADDING, KISS_MAX_PADDING + 1}
InitDelays == {100}
\* kiss_set_TXdelay: tx_delay
Delays == {0, 16, KISS_FEND}

InitCtl ==
    /\ \E bs \in {3, MaxBuf}, pad \in {0, KISS_MAX_PADDING} : tx = Fresh(bs, pad, 0)
    /\ rx = Fresh(MaxBuf, 0, 0)
    /\ wire = << >>
    /\ phase = "api"
    /\ loc = ReceiveLocals(0)
    /\ out = NoOut
    /\ hist = [op |-> "kiss_init", pre |-> tx, preOut |-> NoOut,
               data |-> [kiss |-> tx, buffer |-> tx.buffer, buffer_size |-> tx.buffer_size,
                         padding |-> tx.padding],
               header |-> tx.TXdelay, ret |-> KISS_OK, writes |-> << >>, calls |-> 0]

\* kiss_init(&tx or NULL, buffer or NULL, buffer_size, tx_delay, write, read,
\* NULL, padding)
CtlInit ==
    /\ hist.calls < MaxCalls
    /\ \E inst \in {tx, NULL}, buffer \in {NULL, [i \in 0..(MemSize - 1) |-> 0]},
          bs \in InitSizes, d \in InitDelays, pad \in InitPaddings :
          LET r == kiss_init(inst, buffer, bs, d, TRUE, TRUE, pad)
          IN  /\ tx' = IF inst = NULL THEN tx ELSE r.kiss
              /\ hist' = ApiCall("kiss_init",
                                 [kiss |-> inst, buffer |-> buffer, buffer_size |-> bs,
                                  padding |-> pad], d, r.ret, << >>)
    /\ UNCHANGED << rx, wire, phase, loc, out >>

\* kiss_set_TXdelay(tx, d)
CtlSetTXdelay ==
    /\ hist.calls < MaxCalls
    /\ \E d \in Delays, werr \in WriteResults :
          LET r == kiss_set_TXdelay(tx, d, werr)
          IN  /\ tx' = r.kiss
              /\ hist' = ApiCall("kiss_set_TXdelay", werr, d, r.ret, r.writes)
    /\ UNCHANGED << rx, wire, phase, loc, out >>

NextCtl ==
    \/ CtlInit
    \/ CtlSetTXdelay
    \/ ApiEncode
    \/ ApiPushEncode
    \/ ApiSendFrame
    \/ ApiReceiveFrame
    \/ ApiDecode

SpecCtl == InitCtl /\ [][NextCtl]_vars

\* the arguments of the last kiss_init
InitArgs == hist.data

\* C24: kiss_init returns KISS_ERR_INVALID_PARAMS for a NULL instance, a NULL
\* buffer or a buffer_size below 3 and, these being good,
\* KISS_ERR_PADDING_OVERFLOW for a padding above 32, and leaves the instance
\* as it was in both cases; after a kiss_init that returned KISS_OK the
\* status is Nothing and index is 0; padding <= 32 in every state.
C24_InitValidation ==
    /\ tx.padding <= 32
    /\ hist.op = "kiss_init" =>
          IF \/ InitArgs.kiss = NULL \/ InitArgs.buffer = NULL
             \/ InitArgs.buffer_size < 3
          THEN hist.ret = KISS_ERR_INVALID_PARAMS /\ tx = hist.pre
          ELSE IF InitArgs.padding > 32
          THEN hist.ret = KISS_ERR_PADDING_OVERFLOW /\ tx = hist.pre
          ELSE /\ hist.ret = KISS_OK
               /\ tx.Status = KISS_STATUS_NOTHING
               /\ tx.index = 0
               /\ tx.padding = InitArgs.padding
               /\ tx.buffer_size = InitArgs.buffer_size

\* kiss_init with padding 33 refused on an instance that is in use with
\* padding 32
C24_Witness ==
    /\ hist.op = "kiss_init"
    /\ InitArgs.padding = 33
    /\ InitArgs.buffer_size = MaxBuf
    /\ hist.pre.padding = 32
    /\ hist.pre.Status = KISS_STATUS_TRANSMITTING
    /\ hist.ret = KISS_ERR_PADDING_OVERFLOW

CrcStrings == SeqsUpTo({0, 65}, MaxLen) \cup {<< 255, 255, 255, 255 >>}

InitCrc ==
    /\ tx = Fresh(MaxBuf, 0, 0)
    /\ rx = Fresh(MaxBuf, 0, 0)
    /\ wire = << >>
    /\ phase = "crc"
    /\ loc = ReceiveLocals(0)
    /\ out = NoOut
    /\ \E A \in CrcStrings, B \in CrcStrings :
          hist = [A |-> A, B |-> B, first |-> U32_ZERO, second |-> U32_ZERO,
                  whole |-> U32_ZERO]

\* first = kiss_crc32_push(&tx, 0, A, Len(A))
CrcPushFirst ==
    /\ phase = "crc"
    /\ hist' = [hist EXCEPT !.first = kiss_crc32_push(U32_ZERO, hist.A)]
    /\ phase' = "pushed"
    /\ UNCHANGED << tx, rx, wire, loc, out >>

\* second = kiss_crc32_push(&tx, first, B, Len(B))
CrcPushSecond ==
    /\ phase = "pushed"
    /\ hist' = [hist EXCEPT !.second = kiss_crc32_push(hist.first, hist.B)]
    /\ phase' = "pushed twice"
    /\ UNCHANGED << tx, rx, wire, loc, out >>

\* whole = kiss_crc32(&tx, A || B, Len(A) + Len(B))
CrcWhole ==
    /\ phase = "pushed twice"
    /\ hist' = [hist EXCEPT !.whole = kiss_crc32(hist.A \o hist.B)]
    /\ phase' = "compared"
    /\ UNCHANGED << tx, rx, wire, loc, out >>

NextCrc ==
    \/ CrcPushFirst
    \/ CrcPushSecond
    \/ CrcWhole

SpecCrc == InitCrc /\ [][NextCrc]_vars

\* C25: for all byte strings A and B the complement of
\* kiss_crc32_push(kiss_crc32_push(0, A), B) is kiss_crc32(A || B).
C25_PushContinues ==
    phase = "compared" => Not32(hist.second) = hist.whole

\* C26: the frame kiss_encode_crc32(P, H) builds in a buffer that holds it is
\* FEND, the stuffed H, the stuffed P, the stuffed four little-endian bytes of
\* the CRC32 of H followed by P, FEND.
C26_CrcCoverage ==
    (phase = "encoded" /\ hist.crc /\ ~hist.pushed /\ Len(hist.P) > 0) =>
        Frame(tx) = << 192 >> \o Stuff(hist.H) \o StuffSeq(hist.P)
                       \o StuffSeq(kiss_crc32(<< hist.H >> \o hist.P)) \o << 192 >>

\* C28: kiss_encode and kiss_push_encode store no byte at a position >=
\* buffer_size (the cells that follow the buffer in memory are as they were
\* before the call), the header of a frame with an escaped header in a
\* 3-byte buffer included, and index <= buffer_size when they return,
\* whatever they return.
C28_EncodeWriteSafety ==
    hist.op \in {"kiss_encode", "kiss_push_encode"} =>
        /\ tx.index <= tx.buffer_size
        /\ \A i \in tx.buffer_size..(MemSize - 1) : tx.buffer[i] = hist.pre.buffer[i]

\* an escaped header fills a 3-byte buffer and the terminator finds no room
C28_Witness ==
    /\ hist.op = "kiss_encode"
    /\ hist.header = KISS_FESC
    /\ hist.pre.buffer_size = 3
    /\ hist.ret = KISS_ERR_BUFFER_OVERFLOW
    /\ tx.index = 3
    /\ tx.buffer[1] = KISS_FESC /\ tx.buffer[2] = KISS_TFESC

\* C29: at every call of the read callback by kiss_receive_frame the
\* destination offset plus the max_length it passes is at most buffer_size,
\* and neither the callback's stores nor the scan touch a position >=
\* buffer_size.
C29_ReadWindow ==
    /\ phase = "receiving" => ReadWindow(rx, loc) <= rx.buffer_size
    /\ ~loc.oob

\* C30: whenever kiss_receive_frame returns KISS_OK the status is Received,
\* index >= 3, buffer[0] and buffer[index - 1] are FEND and no byte strictly
\* between them is; a run of two FENDs in the stream is never reported as a
\* frame.
C30_ReceivedWellFormed ==
    (phase = "received" /\ hist.rcvRet = KISS_OK) =>
        /\ rx.Status = KISS_STATUS_RECEIVED
        /\ rx.index >= 3
        /\ rx.buffer[0] = KISS_FEND
        /\ rx.buffer[rx.index - 1] = KISS_FEND
        /\ \A i \in 1..(rx.index - 2) : rx.buffer[i] # KISS_FEND

\* a frame received in three reads after a noise byte, nothing having been
\* stored or scanned outside the buffer
C30_Witness ==
    /\ phase = "received"
    /\ hist.rcvRet = KISS_OK
    /\ hist.A = << 65 >>
    /\ hist.reads = 3
    /\ ~loc.oob
    /\ Frame(rx) = << 192, 0, 65, 192 >>

(* ======================================================================= *)
(* One receiver called several times on one byte stream: each call of      *)
(* kiss_receive_frame runs to its return, its read callback handing over   *)
(* the next bytes of the stream in two pieces and nothing after them.      *)
(* ======================================================================= *)
\* calls of kiss_receive_frame in one behaviour
MaxReceives == 2

\* the first frame of the stream: plain, with an escape pair, with an invalid
\* escape sequence
RxFrames == {<< 192, 0, 65, 192 >>, << 192, 0, 219, 220, 192 >>, << 192, 0, 219, 65, 192 >>}
\* what is ahead of it: nothing, or a noise byte and a FEND of padding
RxHeads == {<< >>, << 65, 192 >>}
\* what follows it at once: nothing, a second frame, or bytes and a FEND
RxTails == {<< >>, << 192, 1, 66, 192 >>, << 65, 66, 192 >>}
\* what arrives later: nothing, or noise and an opening FEND
RxLater == {<< >>, << 65, 65, 65, 65, 192 >>}
\* the numbers of bytes the read callback hands over at one call, as far as
\* the stream and max_length allow
ReadSizes == {0, 1, 4, MaxBuf}

\* the smaller of the piece size s and what the stream and max_length allow
Piece(s, stream, max_length) ==
    IF s <= Len(stream) /\ s <= max_length THEN s
    ELSE IF Len(stream) <= max_length THEN Len(stream) ELSE max_length

\* the read callback stores data, sets *read and returns 0
Hands(data) == [err |-> KISS_OK, read |-> TRUE, data |-> data]

\* the instance with its buffer wiped
Wiped(kiss) == [kiss EXCEPT !.buffer = [i \in DOMAIN kiss.buffer |-> 0]]

InitRx ==
    /\ rx = Fresh(MaxBuf, 0, 0)
    /\ tx = Fresh(MaxBuf, 0, 0)
    /\ \E h \in RxHeads, f \in RxFrames, t \in RxTails, l \in RxLater :
          wire = h \o f \o t \o l
    /\ phase = "rx"
    /\ loc = ReceiveLocals(0)
    /\ out = NoOut
    /\ hist = [stream |-> wire, calls |-> 0, reads |-> << >>, ret |-> UNSET, pre |-> rx,
               wiped |-> [ret |-> UNSET, frame |-> << >>]]

\* kiss_receive_frame(rx, MaxAttempts): the read callback hands over c1 at its
\* first call, c2 at its second and nothing after; the bytes of a piece the
\* call did not ask for stay in the stream.  hist.wiped is what the same call
\* with the same pieces returns from a wiped buffer.  An access outside the
\* buffer is undefined behaviour: the call goes on with the byte stored, or
\* the program stops.
RxReceiveFrame ==
    /\ phase = "rx"
    /\ hist.calls < MaxReceives
    /\ \E s1 \in ReadSizes, s2 \in ReadSizes :
          LET n1 == Piece(s1, wire, rx.buffer_size)
              rest == SubSeq(wire, n1 + 1, Len(wire))
              n2 == Piece(s2, rest, rx.buffer_size)
              reads == << Hands(SubSeq(wire, 1, n1)), Hands(SubSeq(rest, 1, n2)) >>
          IN  \E r \in {kiss_receive_frame(rx, MaxAttempts, reads)},
                 w \in {kiss_receive_frame(Wiped(rx), MaxAttempts, reads)} :
                 LET made == IF r.ret \in {KISS_OK, KISS_ERR_INVALID_FRAME}
                             THEN r.loc.attempt + 1 ELSE r.loc.attempt
                     used == IF made = 1 THEN n1 ELSE n1 + n2
                 IN  /\ rx' = r.kiss
                     /\ loc' = r.loc
                     /\ wire' = SubSeq(wire, used + 1, Len(wire))
                     /\ hist' = [hist EXCEPT !.calls = @ + 1, !.ret = r.ret, !.pre = rx,
                                    !.reads = << SubSeq(wire, 1, n1) >> \o
                                              (IF made = 1 THEN << >>
                                               ELSE << SubSeq(rest, 1, n2) >>),
                                    !.wiped = [ret |-> w.ret, frame |-> Frame(w.kiss)]]
                     /\ \/ phase' = "rx"
                        \/ r.loc.oob /\ phase' = "crashed"
    /\ UNCHANGED << tx, out >>

NextRx == RxReceiveFrame

SpecRx == InitRx /\ [][NextRx]_vars

RECURSIVE FromFend(_)
\* s from its first FEND on
FromFend(s) == IF s = << >> \/ Head(s) = KISS_FEND THEN s ELSE FromFend(Tail(s))

RECURSIVE PastFends(_)
\* s without its leading FENDs
PastFends(s) == IF s # << >> /\ Head(s) = KISS_FEND THEN PastFends(Tail(s)) ELSE s

\* the frame of a stream: its first FEND, and what follows the FENDs after it
\* up to and including the next FEND; empty when the stream holds no such frame
AssembledFrame(s) ==
    LET b == PastFends(FromFend(s))
        ends == {k \in 1..Len(b) : b[k] = KISS_FEND}
    IN  IF FromFend(s) = << >> \/ ends = {} THEN << >>
        ELSE << KISS_FEND >> \o SubSeq(b, 1, CHOOSE k \in ends : \A j \in ends : k <= j)

C39_CallsIndependent ==
    (hist.calls >= 2 /\ phase = "rx" /\ ~loc.oob) =>
        /\ hist.ret = hist.wiped.ret
        /\ hist.ret = KISS_OK => Frame(rx) = hist.wiped.frame

(* ======================================================================= *)
(* A receiver that takes frames, good and malformed, in one read each, and *)
(* decodes what it holds with kiss_decode, kiss_receive_and_decode and     *)
(* kiss_extract_param, in any order, into arrays of several capacities.    *)
(* ======================================================================= *)
\* what the read callback delivers: a parameter frame, a frame with escape
\* pairs, and frames with an invalid escape sequence in the header, in the
\* payload behind a byte, and just ahead of the closing FEND
DecStreams ==
    {<< 192, 80, 2, 1, 5, 192 >>, << 192, 219, 221, 65, 219, 220, 192 >>,
     << 192, 219, 65, 0, 192 >>, << 192, 0, 65, 219, 65, 192 >>,
     << 192, 0, 65, 66, 219, 192 >>}
\* output_max_size and max_param_size of the calls
DecCaps == {0, 1, MaxLen, MaxBuf}

\* the caller's variables before any call wrote them; the arrays have MaxBuf
\* and ParamMem cells
NoDec ==
    [dec |-> [output |-> [i \in 1..MaxBuf |-> UNSET], output_length |-> UNSET,
              header |-> UNSET],
     par |-> NoParam(ParamMem)]

InitDec ==
    /\ \E bs \in {MaxBuf - 1, MaxBuf} : tx = Fresh(bs, 0, 0)
    /\ rx = Fresh(MaxBuf, 0, 0)
    /\ wire = << >>
    /\ phase = "api"
    /\ loc = ReceiveLocals(0)
    /\ out = NoDec
    /\ hist = [op |-> "kiss_init", pre |-> tx, preOut |-> NoDec, data |-> << >>, header |-> 0,
               ret |-> KISS_OK, writes |-> << >>, calls |-> 0]

\* kiss_receive_frame(tx, MaxAttempts), the first read delivering stream
DecReceive ==
    /\ hist.calls < MaxCalls
    /\ \E stream \in DecStreams :
          \E r \in {kiss_receive_frame(tx, MaxAttempts, << Hands(stream) >>)} :
              /\ tx' = r.kiss
              /\ hist' = ApiCall("kiss_receive_frame", stream, 0, r.ret, << >>)
    /\ UNCHANGED << rx, wire, phase, loc, out >>

\* kiss_receive_and_decode(tx, output, cap, &output_length, MaxAttempts,
\* &header), the first read delivering stream
DecReceiveAndDecode ==
    /\ hist.calls < MaxCalls
    /\ \E stream \in DecStreams, cap \in DecCaps :
          \E r \in {kiss_receive_and_decode(tx, cap, out.dec, MaxAttempts,
                                            << Hands(stream) >>)} :
              /\ tx' = r.kiss
              /\ out' = [out EXCEPT !.dec = r.out]
              /\ hist' = ApiCall("kiss_receive_and_decode", stream, cap, r.ret, << >>)
    /\ UNCHANGED << rx, wire, phase, loc >>

\* kiss_decode(tx, output, cap, &output_length, &header)
DecDecode ==
    /\ hist.calls < MaxCalls
    /\ \E cap \in DecCaps :
          \E r \in {kiss_decode(tx, cap, out.dec)} :
              /\ tx' = r.kiss
              /\ out' = [out EXCEPT !.dec = r.out]
              /\ hist' = ApiCall("kiss_decode", << >>, cap, r.ret, << >>)
    /\ UNCHANGED << rx, wire, phase, loc >>

\* kiss_extract_param(tx, &ID, param, cap, &param_length)
DecExtract ==
    /\ hist.calls < MaxCalls
    /\ \E cap \in DecCaps :
          /\ cap <= ParamMem
          /\ \E r \in {kiss_extract_param(tx, cap, out.par)} :
                /\ tx' = r.kiss
                /\ out' = [out EXCEPT !.par = r.res]
                /\ hist' = ApiCall("kiss_extract_param", << >>, cap, r.ret, << >>)
    /\ UNCHANGED << rx, wire, phase, loc >>

NextDec ==
    \/ DecReceive
    \/ DecReceiveAndDecode
    \/ DecDecode
    \/ DecExtract

SpecDec == InitDec /\ [][NextDec]_vars

\* what stands between the two FENDs of the frame f
Body(f) == SubSeq(f, 2, Len(f) - 1)
\* a 0xDB of the frame f is followed by something other than 0xDC or 0xDD
Malformed(f) == Len(f) >= 3 /\ ~Unstuff(Body(f)).ok
\* the payload bytes that the frame f holds ahead of its first invalid
\* escape sequence, unstuffed
Ahead(f) == IF Unstuff(Body(f)).bytes = << >> THEN << >> ELSE Tail(Unstuff(Body(f)).bytes)
\* the last call was a kiss_decode of a received frame
Decoded == hist.op = "kiss_decode" /\ hist.pre.Status = KISS_STATUS_RECEIVED

\* C32 as stated: kiss_decode returns KISS_ERR_INVALID_FRAME for every frame in
\* which a 0xDB, in the header position or in the payload, is followed by a
\* byte other than 0xDC and 0xDD.
C32_AsClaimed ==
    (Decoded /\ Malformed(HeldFrame)) => hist.ret = KISS_ERR_INVALID_FRAME

\* C32: for such a frame kiss_decode never returns KISS_OK: it returns
\* KISS_ERR_INVALID_FRAME when the output holds the payload bytes ahead of the
\* invalid sequence, and KISS_ERR_BUFFER_OVERFLOW when it does not.
C32_MalformedRejected ==
    (Decoded /\ Malformed(HeldFrame)) =>
        hist.ret = IF Len(Ahead(HeldFrame)) > hist.header THEN KISS_ERR_BUFFER_OVERFLOW
                   ELSE KISS_ERR_INVALID_FRAME

\* a 0xDB just ahead of the closing FEND, behind two payload bytes that the
\* output holds
C32_Witness ==
    /\ Decoded
    /\ HeldFrame = << 192, 0, 65, 66, 219, 192 >>
    /\ hist.header = MaxLen
    /\ hist.ret = KISS_ERR_INVALID_FRAME
    /\ tx.Status = KISS_STATUS_ERROR_STATE

\* C33: kiss_decode stores nothing in the output beyond its first
\* output_max_size cells; for a well-escaped frame whose unstuffed payload is
\* longer than output_max_size it returns KISS_ERR_BUFFER_OVERFLOW, and
\* otherwise KISS_OK with output_length the number of unstuffed payload bytes,
\* at most output_max_size, and those bytes in the output.
C33_OutputBound ==
    Decoded =>
        /\ Len(out.dec.output) = Len(hist.preOut.dec.output)
        /\ \A i \in 1..Len(out.dec.output) :
              i > hist.header => out.dec.output[i] = hist.preOut.dec.output[i]
        /\ (Len(HeldFrame) >= 3 /\ ~Malformed(HeldFrame)) =>
              IF Len(PayloadOf(HeldFrame)) > hist.header
              THEN hist.ret = KISS_ERR_BUFFER_OVERFLOW
              ELSE /\ hist.ret = KISS_OK
                   /\ out.dec.output_length = Len(PayloadOf(HeldFrame))
                   /\ out.dec.output_length <= hist.header
                   /\ SubSeq(out.dec.output, 1, out.dec.output_length) = PayloadOf(HeldFrame)

\* a payload of three bytes decoded into an output of two: two bytes stored,
\* the third cell untouched, KISS_ERR_BUFFER_OVERFLOW
C33_Witness ==
    /\ Decoded
    /\ HeldFrame = << 192, 80, 2, 1, 5, 192 >>
    /\ hist.header = MaxLen
    /\ hist.ret = KISS_ERR_BUFFER_OVERFLOW
    /\ hist.preOut.dec.output[1] = UNSET
    /\ out.dec.output[MaxLen] # UNSET
    /\ out.dec.output[MaxLen + 1] = UNSET

\* C37: kiss_decode and kiss_extract_param leave buffer and index as they
\* found them and, when they return KISS_OK, the status Received; the same
\* call made again after a successful kiss_decode, kiss_receive_and_decode or
\* kiss_extract_param succeeds again and delivers the same header and
\* payload, or the same ID and value.
C37_DecodeReadOnly ==
    /\ hist.op \in {"kiss_decode", "kiss_extract_param"} =>
          /\ tx.buffer = hist.pre.buffer
          /\ tx.index = hist.pre.index
    /\ (hist.op \in {"kiss_decode", "kiss_extract_param", "kiss_receive_and_decode"}
          /\ hist.ret = KISS_OK) =>
          /\ tx.Status = KISS_STATUS_RECEIVED
          /\ hist.op # "kiss_extract_param" =>
                kiss_decode(tx, hist.header, hist.preOut.dec) =
                    [kiss |-> tx, ret |-> KISS_OK, out |-> out.dec]
          /\ hist.op = "kiss_extract_param" =>
                kiss_extract_param(tx, hist.header, hist.preOut.par) =
                    [kiss |-> tx, ret |-> KISS_OK, res |-> out.par]

\* a kiss_extract_param that succeeds on a frame that an earlier call has
\* decoded already
C37_Witness ==
    /\ hist.op = "kiss_extract_param"
    /\ hist.ret = KISS_OK
    /\ Frame(tx) = << 192, 80, 2, 1, 5, 192 >>
    /\ out.dec.header = 80
    /\ SubSeq(out.dec.output, 1, 3) = << 2, 1, 5 >>
    /\ out.par.ID = 258
    /\ out.par.param[1] = 5

\* the last call was a kiss_send_frame of an encoded frame
Sending == hist.op = "kiss_send_frame" /\ hist.pre.Status = KISS_STATUS_TRANSMITTING
\* p bytes of 0xC0
Fends(p) == [i \in 1..p |-> 192]

\* C34: a kiss_send_frame that returns KISS_OK with padding p has called the
\* write callback with p bytes of 0xC0 first (not at all when p = 0) and with
\* buffer[0..index) after; when the write of the padding fails the frame is
\* not written, the call returns the error and the status is ErrorState.
C34_TransmissionOrder ==
    Sending =>
        /\ hist.ret = KISS_OK =>
              hist.writes = (IF hist.pre.padding = 0 THEN << >>
                             ELSE << Fends(hist.pre.padding) >>) \o << Frame(hist.pre) >>
        /\ (hist.pre.padding > 0 /\ hist.data[1] # KISS_OK) =>
              /\ hist.writes = << Fends(hist.pre.padding) >>
              /\ hist.ret = hist.data[1]
              /\ tx.Status = KISS_STATUS_ERROR_STATE

\* the write of a padding of 32 bytes fails
C34_Witness ==
    /\ Sending
    /\ hist.pre.padding = 32
    /\ hist.data[1] = WriteFailed
    /\ hist.writes = << Fends(32) >>
    /\ hist.ret = WriteFailed
    /\ tx.Status = KISS_STATUS_ERROR_STATE

(* ======================================================================= *)
(* A sender and what its transport sees: the API calls in any order, with  *)
(* wire holding, in order, an "encode" for every encode that returned      *)
(* KISS_OK and a "frame" for every call of the write callback with         *)
(* buffer[0..index).  hist.log is wire before the last call.               *)
(* ======================================================================= *)
\* the events of a call that encodes, sends, or does both
Events(encoded, writes, padding) ==
    (IF encoded THEN << "encode" >> ELSE << >>) \o
    (IF Len(writes) > (IF padding > 0 THEN 1 ELSE 0) THEN << "frame" >> ELSE << >>)

InitSend ==
    /\ \E bs \in {4, MaxBuf}, pad \in {0, 1} : tx = Fresh(bs, pad, 0)
    /\ rx = Fresh(MaxBuf, 0, 0)
    /\ wire = << >>
    /\ phase = "api"
    /\ loc = ReceiveLocals(0)
    /\ out = NoOut
    /\ hist = [op |-> "kiss_init", pre |-> tx, preOut |-> NoOut, data |-> << >>, header |-> 0,
               ret |-> KISS_OK, writes |-> << >>, calls |-> 0, log |-> << >>]

\* kiss_encode(tx, P, Len(P), H) or kiss_encode_crc32(tx, P, Len(P), H)
SendEncode ==
    /\ hist.calls < MaxCalls
    /\ \E P \in ApiPayloads, H \in ApiHeaders, crc \in BOOLEAN :
          \E r \in {IF crc THEN kiss_encode_crc32(tx, P, H) ELSE kiss_encode(tx, P, H)} :
              /\ tx' = r.kiss
              /\ wire' = wire \o Events(r.ret = KISS_OK, << >>, 0)
              /\ hist' = ApiCall(IF crc THEN "kiss_encode_crc32" ELSE "kiss_encode",
                                 P, H, r.ret, << >>) @@ [log |-> wire]
    /\ UNCHANGED << rx, phase, loc, out >>

\* kiss_push_encode(tx, B, Len(B))
SendPushEncode ==
    /\ hist.calls < MaxCalls
    /\ \E B \in ApiPushes :
          \E r \in {kiss_push_encode(tx, B)} :
              /\ tx' = r.kiss
              /\ hist' = ApiCall("kiss_push_encode", B, 0, r.ret, << >>) @@ [log |-> wire]
    /\ UNCHANGED << rx, wire, phase, loc, out >>

\* kiss_send_frame(tx)
SendSendFrame ==
    /\ hist.calls < MaxCalls
    /\ \E werr \in WriteResults :
          \E r \in {kiss_send_frame(tx, werr)} :
              /\ tx' = r.kiss
              /\ wire' = wire \o Events(FALSE, r.writes, tx.padding)
              /\ hist' = ApiCall("kiss_send_frame", werr, 0, r.ret, r.writes) @@ [log |-> wire]
    /\ UNCHANGED << rx, phase, loc, out >>

\* kiss_set_TXdelay(tx, d): a control-frame operation, which encodes and sends
SendSetTXdelay ==
    /\ hist.calls < MaxCalls
    /\ \E d \in Delays, werr \in WriteResults :
          \E r \in {kiss_set_TXdelay(tx, d, werr)} :
              /\ tx' = r.kiss
              /\ wire' = wire \o Events(Len(r.writes) > 0, r.writes, tx.padding)
              /\ hist' = ApiCall("kiss_set_TXdelay", werr, d, r.ret, r.writes) @@ [log |-> wire]
    /\ UNCHANGED << rx, phase, loc, out >>

\* kiss_receive_frame(tx, MaxAttempts), the first read delivering a stream
\* that the buffer holds, or kiss_decode(tx, output, cap, ...)
SendReceiveOrDecode ==
    /\ hist.calls < MaxCalls
    /\ \/ \E stream \in ApiStreams :
             /\ Len(stream) <= tx.buffer_size
             /\ \E r \in {kiss_receive_frame(tx, MaxAttempts, << Hands(stream) >>)} :
                   /\ tx' = r.kiss
                   /\ out' = out
                   /\ hist' = ApiCall("kiss_receive_frame", stream, 0, r.ret, << >>)
                                 @@ [log |-> wire]
       \/ \E r \in {kiss_decode(tx, MaxBuf, out)} :
             /\ tx' = r.kiss
             /\ out' = r.out
             /\ hist' = ApiCall("kiss_decode", << >>, MaxBuf, r.ret, << >>) @@ [log |-> wire]
    /\ UNCHANGED << rx, wire, phase, loc >>

NextSend ==
    \/ SendEncode
    \/ SendPushEncode
    \/ SendSendFrame
    \/ SendSetTXdelay
    \/ SendReceiveOrDecode

SpecSend == InitSend /\ [][NextSend]_vars

\* the transport has seen a frame and no encode has returned KISS_OK since
FrameOut(log) == log # << >> /\ log[Len(log)] = "frame"

\* C38: a kiss_send_frame called when a frame was written and no encode has
\* succeeded since returns KISS_ERR_DATA_NOT_ENCODED and calls the write
\* callback not at all; between any two frame writes to the transport there
\* is an encode that returned KISS_OK.
C38_NoRetransmission ==
    /\ (hist.op = "kiss_send_frame" /\ FrameOut(hist.log)) =>
          /\ hist.ret = KISS_ERR_DATA_NOT_ENCODED
          /\ hist.writes = << >>
          /\ wire = hist.log
    /\ \A i \in 1..(Len(wire) - 1) : ~(wire[i] = "frame" /\ wire[i + 1] = "frame")

\* a second kiss_send_frame right after the one that returned KISS_OK
C38_Witness ==
    /\ hist.op = "kiss_send_frame"
    /\ hist.log = << "encode", "frame" >>
    /\ hist.pre.Status = KISS_STATUS_TRANSMITTED
    /\ hist.ret = KISS_ERR_DATA_NOT_ENCODED
    /\ hist.writes = << >>

(* ======================================================================= *)
(* C35: kiss_encode(A, H) then kiss_push_encode(B) against                  *)
(* kiss_encode(A \o B, H), under Spec.  While phase = "encoded" rx is still *)
(* the instance as kiss_init left it, which is what tx was before           *)
(* kiss_encode(A, H): same buffer, buffer_size, padding and status.         *)
(* ======================================================================= *)
\* an encode without CRC32 and one push after it
EncodedThenPushed == phase = "encoded" /\ hist.pushed /\ ~hist.crc

\* C35: whenever kiss_encode(A \o B, H) on the same instance returns KISS_OK
\* (the combined frame fits), kiss_encode(A, H) and kiss_push_encode(B) both
\* returned KISS_OK and left the instance - buffer, index and Status - as
\* kiss_encode(A \o B, H) leaves it.
C35_IncrementalEquivalence ==
    EncodedThenPushed =>
        \A whole \in {kiss_encode(rx, hist.P, hist.H)} :
            whole.ret = KISS_OK =>
                /\ hist.encRet = KISS_OK
                /\ hist.pushRet = KISS_OK
                /\ tx = whole.kiss

\* A = C0, B = DB, H = DB in a buffer the combined frame fills
C35_Witness ==
    /\ EncodedThenPushed
    /\ hist.A = << KISS_FEND >>
    /\ hist.P = << KISS_FEND, KISS_FESC >>
    /\ hist.H = KISS_FESC
    /\ hist.pushRet = KISS_OK
    /\ tx.buffer_size = MaxBuf
    /\ Frame(tx) = << 192, 219, 221, 219, 220, 219, 221, 192 >>
    /\ tx = kiss_encode(rx, hist.P, hist.H).kiss

(* ======================================================================= *)
(* kiss_set_param_crc32 on a sender whose buffer holds ID, value and the   *)
(* four CRC bytes, or is too small for them.                               *)
(* ======================================================================= *)
InitSetCrc ==
    /\ \E bs \in {MaxBuf, MemSize}, pad \in {0, 1} : tx = Fresh(bs, pad, 0)
    /\ rx = Fresh(MaxBuf, 0, 0)
    /\ wire = << >>
    /\ phase = "api"
    /\ loc = ReceiveLocals(0)
    /\ out = NoOut
    /\ hist = [op |-> "kiss_init", pre |-> tx, ID |-> 0, value |-> << >>,
               werr |-> << KISS_OK, KISS_OK >>, ret |-> KISS_OK, writes |-> << >>,
               received |-> FALSE, calls |-> 0]

\* kiss_set_param_crc32(tx, ID, value, Len(value))
SetParamCrc32 ==
    /\ hist.calls < MaxParamCalls
    /\ \E ID \in ParamIds, value \in ParamValues, werr \in WriteResults :
          \E r \in {kiss_set_param_crc32(tx, ID, value, werr)} :
              /\ tx' = r.kiss
              /\ hist' = ParamCall("kiss_set_param_crc32", ID, value, werr, r, FALSE)
    /\ UNCHANGED << rx, wire, phase, loc, out >>

NextSetCrc == SetParamCrc32

SpecSetCrc == InitSetCrc /\ [][NextSetCrc]_vars

\* the frame of a kiss_set_param_crc32 reached the write callback
CrcParamSent ==
    /\ hist.op = "kiss_set_param_crc32"
    /\ Len(hist.writes) > (IF hist.pre.padding > 0 THEN 1 ELSE 0)

\* C36: the frame kiss_set_param_crc32(ID, value) hands to the write callback
\* is FEND, 0x50, then stuffed: ID low, ID high, the value, and the four bytes
\* low byte first of kiss_crc32 over ID low, ID high, value; then FEND.  That
\* trailer is the one kiss_verify_crc32 accepts for the decoded payload.
C36_ParamCrcTrailer ==
    CrcParamSent =>
        \A covered \in {IdBytes(hist.ID) \o hist.value} :
            /\ hist.writes[Len(hist.writes)] =
                   << 192, 80 >> \o StuffSeq(covered \o kiss_crc32(covered)) \o << 192 >>
            /\ kiss_verify_crc32(covered,
                                 Not32(kiss_crc32_push(kiss_crc32(IdBytes(hist.ID)), hist.value)))
                   = KISS_OK
====
